---------------------------- MODULE Spec2Model ----------------------------
(***************************************************************************)
(* FlowState: the flowchart text layer of src/jiu_jitsu_functions.py.      *)
(*                                                                         *)
(* Text is a sequence of one-character strings, so that every find, split, *)
(* strip, replace and slice of the Python source is computed character by  *)
(* character.  Positions are 0-based, as in the source: Slice(s, a, b) is  *)
(* s[a:b] and Find returns -1 when there is no occurrence.                 *)
(***************************************************************************)
EXTENDS Integers, Sequences, FiniteSets

VARIABLES
    pc,             \* where the modelled call sequence stands
    debug_info,     \* the text in front of the "MERMAID:" marker, when the reply is wrapped
    reply,          \* the chart the completion service replied with, statement by statement
    flow_chart,     \* the text handed to sanitize_mermaid / next_move
    fixed_chart,    \* what sanitize_mermaid returned
    again,          \* sanitize_mermaid applied to its own result
    frame,          \* the local variables of a sanitize_mermaid call that is run loop by loop
    move_text,      \* the move the user typed before pressing Flow
    outcome,        \* what the next_move call found, returned and requested
    provider,       \* what the completion service does with a request of the chart page
    request,        \* the pivot or counter request made from the chart page, and its result
    counter_flowchart,  \* the counter chart the page stores
    strategy_text,  \* the strategy text handed to format_strategy_for_display
    formatted_text, \* what format_strategy_for_display returned
    temp_dirs, \* how many directories made by tempfile.mkdtemp are still on disk
    base64Frames, \* the frames the last extract_frames call returned
    vision_requests, \* the content lists of the requests with images the last call sent, in order
    current_image, \* whether the session holds an uploaded image (st.session_state.current_image)
    calls, \* how many completion calls were made since the last button was pressed
    left_column_history, \* the strategies of the initiator, oldest first
    right_column_history, \* the strategies of the defender, oldest first
    left_waiting, \* a counter of the initiator was asked for and is not generated yet
    right_waiting  \* a counter of the defender was asked for and is not generated yet

video_page == <<temp_dirs, base64Frames, vision_requests>>

page_run == <<current_image, calls>>

battle == <<left_column_history, right_column_history, left_waiting, right_waiting>>

vars == <<pc, debug_info, reply, flow_chart, fixed_chart, again, frame, move_text, outcome,
          provider, request, counter_flowchart, strategy_text, formatted_text, video_page, page_run, battle>>

-----------------------------------------------------------------------------
(* Python str operations                                                   *)

\* s[a:b] for 0 <= a, 0 <= b
Slice(s, a, b) ==
    LET hi == IF b > Len(s) THEN Len(s) ELSE b
    IN  IF a >= hi THEN <<>> ELSE SubSeq(s, a + 1, hi)

\* s[a:]
SliceFrom(s, a) == Slice(s, a, Len(s))

\* sub occurs in s at 0-based position i
IsAt(s, sub, i) ==
    /\ i >= 0
    /\ i + Len(sub) <= Len(s)
    /\ \A k \in 1..Len(sub) : s[i + k] = sub[k]

\* s.find(sub, start): the lowest position from start on where sub occurs, or -1
Find(s, sub, start) ==
    LET hits == {i \in start..(Len(s) - Len(sub)) : IsAt(s, sub, i)}
    IN  IF hits = {} THEN -1 ELSE CHOOSE i \in hits : \A j \in hits : i <= j

\* sub in s
Contains(s, sub) == Find(s, sub, 0) # -1

\* s.startswith(p), s.endswith(p)
StartsWith(s, p) == IsAt(s, p, 0)
EndsWith(s, p) == IsAt(s, p, Len(s) - Len(p))

\* the characters str.strip() removes
Whitespace == {" ", "\n", "\t"}

RECURSIVE LStrip(_)
LStrip(s) ==
    IF s # <<>> /\ s[1] \in Whitespace THEN LStrip(Tail(s)) ELSE s

RECURSIVE RStrip(_)
RStrip(s) ==
    IF s # <<>> /\ s[Len(s)] \in Whitespace
    THEN RStrip(SubSeq(s, 1, Len(s) - 1)) ELSE s

\* s.strip()
Strip(s) == RStrip(LStrip(s))

RECURSIVE Replace(_, _, _)
\* s.replace(old, new): leftmost occurrences, left to right, not overlapping
Replace(s, old, new) ==
    LET i == Find(s, old, 0)
    IN  IF i = -1 THEN s
        ELSE Slice(s, 0, i) \o new \o Replace(SliceFrom(s, i + Len(old)), old, new)

RECURSIVE Split(_, _)
\* s.split(sep): the list of parts
Split(s, sep) ==
    LET i == Find(s, sep, 0)
    IN  IF i = -1 THEN <<s>>
        ELSE <<Slice(s, 0, i)>> \o Split(SliceFrom(s, i + Len(sep)), sep)

RECURSIVE Join(_, _)
\* sep.join(parts)
Join(parts, sep) ==
    IF parts = <<>> THEN <<>>
    ELSE IF Len(parts) = 1 THEN parts[1]
    ELSE parts[1] \o sep \o Join(Tail(parts), sep)

RECURSIVE Flatten(_)
\* the concatenation of a sequence of texts
Flatten(parts) ==
    IF parts = <<>> THEN <<>> ELSE parts[1] \o Flatten(Tail(parts))

Spaces(n) == [i \in 1..n |-> " "]

-----------------------------------------------------------------------------
(* Literals of sanitize_mermaid                                            *)

DEBUG_INFO == <<"D","E","B","U","G"," ","I","N","F","O",":">>   \* "DEBUG INFO:"
MERMAID == <<"M","E","R","M","A","I","D",":">>                  \* "MERMAID:"
DebugTail == <<"[","D","e","b","u","g",":">>                    \* "[Debug:"
\* the backtick character (a string literal of the module cannot hold one)
Backtick == "BACKTICK"
Fence == <<Backtick, Backtick, Backtick>>                       \* three backticks
FenceMermaid == Fence \o <<"m","e","r","m","a","i","d">>        \* three backticks, "mermaid"
KwGraph == <<"g","r","a","p","h"," ">>                          \* "graph "
KwFlowchart == <<"f","l","o","w","c","h","a","r","t"," ">>      \* "flowchart "
GraphTD == <<"g","r","a","p","h"," ","T","D">>                  \* "graph TD"
Arrow == <<"-","-",">">>                                        \* "-->"
ArrowPipe == <<"-","-",">","|">>                                \* "-->|"
NL == <<"\n">>
Quote == <<"\"">>

\* the keywords a chart may start with (line 365)
DeclarationKeywords ==
    { KwGraph, KwFlowchart,
      <<"s","e","q","u","e","n","c","e","D","i","a","g","r","a","m">>,
      <<"c","l","a","s","s","D","i","a","g","r","a","m">>,
      <<"s","t","a","t","e","D","i","a","g","r","a","m">>,
      <<"g","a","n","t","t">>,
      <<"p","i","e">> }

\* the triple-quoted default chart of lines 375-381, with its source indentation
DefaultChart ==
    NL \o Spaces(12) \o GraphTD \o NL
    \o Spaces(16)
    \o <<"A","[","\"","S","t","a","r","t","i","n","g"," ","P","o","s","i","t","i","o","n","\"","]",
         " ","-","-",">"," ","B","[","\"","P","o","s","i","t","i","o","n"," ","1","\"","]">> \o NL
    \o Spaces(16)
    \o <<"A"," ","-","-",">"," ","C","[","\"","P","o","s","i","t","i","o","n"," ","2","\"","]">> \o NL
    \o Spaces(16)
    \o <<"B"," ","-","-",">"," ","D","[","\"","S","u","b","m","i","s","s","i","o","n"," ","1","\"","]">> \o NL
    \o Spaces(16)
    \o <<"C"," ","-","-",">"," ","E","[","\"","S","u","b","m","i","s","s","i","o","n"," ","2","\"","]">> \o NL
    \o Spaces(12)

-----------------------------------------------------------------------------
(* sanitize_mermaid, step by step                                          *)

\* a sanitizer that leaves the debug section where it is
KeepDebugSection(text) == text

\* lines 349-352: keep what follows the first "MERMAID:" of a debug-wrapped text
StripDebugSection(text) ==
    IF Contains(text, DEBUG_INFO) /\ Contains(text, MERMAID)
    THEN LET parts == Split(text, MERMAID)
         IN  IF Len(parts) > 1 THEN Strip(parts[2]) ELSE text
    ELSE text

\* lines 355-356: cut a trailing "[Debug:" note
StripDebugTail(text) ==
    IF Contains(text, DebugTail) THEN Strip(Split(text, DebugTail)[1]) ELSE text

\* a sanitizer that removes only the "mermaid"-tagged fence
StripTaggedFenceOnly(text) ==
    IF Contains(text, FenceMermaid) THEN Strip(Replace(text, FenceMermaid, <<>>)) ELSE text

\* lines 359-362: remove the markdown fences
StripFences(text) ==
    LET t1 == IF Contains(text, FenceMermaid)
              THEN Strip(Replace(text, FenceMermaid, <<>>)) ELSE text
    IN  IF Contains(t1, Fence) THEN Strip(Replace(t1, Fence, <<>>)) ELSE t1

\* line 365: the stripped text starts with one of the keywords
StartsWithDeclaration(text) ==
    \E kw \in DeclarationKeywords : StartsWith(Strip(text), kw)

\* lines 365-381: slice from the first "graph " / "flowchart ", or substitute the default
EnsureDeclaration(text) ==
    IF StartsWithDeclaration(text) THEN text
    ELSE IF Contains(text, KwGraph) THEN Strip(SliceFrom(text, Find(text, KwGraph, 0)))
    ELSE IF Contains(text, KwFlowchart) THEN Strip(SliceFrom(text, Find(text, KwFlowchart, 0)))
    ELSE DefaultChart

\* a quoting test that takes every label for unquoted
NeverQuoted(label) == FALSE

\* lines 426, 448: the label is already quoted
IsQuoted(label) == StartsWith(label, Quote) /\ EndsWith(label, Quote)

RECURSIVE QuoteBrackets(_, _)
\* lines 414-432: the while loop over '[' ... ']', from bracket_start on
QuoteBrackets(new_line, bracket_start) ==
    IF ~Contains(SliceFrom(new_line, bracket_start), <<"[">>) THEN new_line
    ELSE LET bs == Find(new_line, <<"[">>, bracket_start)
             bracket_end == Find(new_line, <<"]">>, bs)
             label == Slice(new_line, bs + 1, bracket_end)
         IN  IF bracket_end = -1 THEN new_line
             ELSE IF ~IsQuoted(label)
             THEN QuoteBrackets(Slice(new_line, 0, bs + 1) \o Quote \o label \o Quote
                                    \o SliceFrom(new_line, bracket_end),
                                (bracket_end + 2) + 1)
             ELSE QuoteBrackets(new_line, bracket_end + 1)

\* a line cleaner that leaves the arrow labels as they are
KeepArrows(new_line, arrow_start) == new_line

RECURSIVE QuoteArrows(_, _)
\* lines 435-454: the while loop over '-->|' ... '|', from arrow_start on
QuoteArrows(new_line, arrow_start) ==
    IF ~Contains(SliceFrom(new_line, arrow_start), ArrowPipe) THEN new_line
    ELSE LET arrow_at == Find(new_line, ArrowPipe, arrow_start)
             pipe_start == arrow_at + 4
             pipe_end == Find(new_line, <<"|">>, pipe_start)
             label == Slice(new_line, pipe_start, pipe_end)
         IN  IF pipe_end = -1 THEN new_line
             ELSE IF ~IsQuoted(label)
             THEN QuoteArrows(Slice(new_line, 0, pipe_start) \o Quote \o label \o Quote
                                  \o SliceFrom(new_line, pipe_end),
                              (pipe_end + 2) + 1)
             ELSE QuoteArrows(new_line, pipe_end + 1)

\* lines 403: a later line that repeats the declaration
IsGraphDeclaration(line) == StartsWith(line, KwGraph) \/ StartsWith(line, KwFlowchart)

\* lines 406-408: the stripped line, indented by four spaces
Indent(line) == IF StartsWith(line, Spaces(4)) THEN line ELSE Spaces(4) \o line

\* lines 406-456: one kept line, indented and quoted
CleanLine(line) == QuoteArrows(QuoteBrackets(Indent(line), 0), 0)

RECURSIVE CleanLines(_)
\* lines 395-456: the for loop over lines[1:]
CleanLines(lines) ==
    IF lines = <<>> THEN <<>>
    ELSE LET line == Strip(lines[1])
         IN  IF line = <<>> \/ IsGraphDeclaration(line) THEN CleanLines(Tail(lines))
             ELSE <<CleanLine(line)>> \o CleanLines(Tail(lines))

\* lines 388-392: the first output line
DeclarationLine(lines) ==
    IF lines # <<>> /\ IsGraphDeclaration(Strip(lines[1])) THEN Strip(lines[1]) ELSE GraphTD

\* lines 462-465: the four trailing replacements
FixFormatting(chart) ==
    Replace(Replace(Replace(Replace(chart,
        <<"[", " ">>, <<"[">>),
        <<" ", "]">>, <<"]">>),
        ArrowPipe \o <<" ">>, ArrowPipe),
        <<" ", "|">>, <<"|">>)

\* lines 384-467: split into lines, clean each, join and fix
ProcessChart(text) ==
    LET lines == Split(Strip(text), NL)
        clean_lines == <<DeclarationLine(lines)>> \o CleanLines(Tail(lines))
    IN  FixFormatting(Join(clean_lines, NL))

\* the default chart of lines 375-381 after lines 384-467
ProcessedDefault == ProcessChart(DefaultChart)

\* lines 344-467
sanitize_mermaid(text) ==
    LET chart == EnsureDeclaration(StripFences(StripDebugTail(StripDebugSection(text))))
    IN  IF chart = DefaultChart THEN ProcessedDefault ELSE ProcessChart(chart)

-----------------------------------------------------------------------------
(* Replies of the completion service, token by token                       *)

\* the longest reply, in tokens
MaxTokens == 3

\* "hello world"
HelloWorld == <<"h","e","l","l","o"," ","w","o","r","l","d">>

\* the pieces a reply is made of: keywords, delimiters, fences, blanks, text
Tokens ==
    { KwGraph, <<"p","i","e">>, NL, <<" ">>, <<"[">>, <<"]">>, <<"|">>, <<"-","-",">">>,
      Quote, <<"a">>, <<Backtick>>, <<Backtick, Backtick>>, FenceMermaid }

\* all sequences over S of length at most n
SeqsUpTo(S, n) == UNION {[1..k -> S] : k \in 0..n}

Replies == {Flatten(ts) : ts \in SeqsUpTo(Tokens, MaxTokens)} \cup {HelloWorld}

-----------------------------------------------------------------------------
(* The sanitizer applied to a reply, and again to its own result: the page *)
(* stores sanitize_mermaid(reply) (src/flowstate.py:619-622) and, when     *)
(* next_move returns the stored chart unchanged, sanitizes it a second     *)
(* time (src/flowstate.py:723-736).                                        *)

\* no call is being run loop by loop
NoFrame == [lines |-> <<>>, clean_lines |-> <<>>, new_line |-> <<>>,
            bracket_start |-> 0, arrow_start |-> 0]

\* no call of next_move has been made
NoOutcome == [scan |-> "none", node_id |-> <<>>, new_position |-> <<>>,
              context_nodes |-> <<>>, raised |-> FALSE, returned |-> <<>>, requests |-> 0]

\* no request has been made from the chart page
NoProvider == [ok |-> FALSE, content |-> <<>>]
NoRequest == [kind |-> "none", position |-> <<>>, requests |-> 0, returned |-> <<>>]

\* no structured chart: the reply is free text
NoReply == [fenced |-> FALSE, declaration |-> <<>>, statements |-> <<>>]

Init ==
    /\ pc = "reply"
    /\ debug_info = <<>>
    /\ reply = NoReply
    /\ flow_chart \in Replies
    /\ fixed_chart = <<>>
    /\ again = <<>>
    /\ frame = NoFrame
    /\ move_text = <<>>
    /\ outcome = NoOutcome
    /\ provider = NoProvider
    /\ request = NoRequest
    /\ counter_flowchart = <<>>
    /\ strategy_text = <<>>
    /\ formatted_text = <<>>
    /\ temp_dirs = 0
    /\ base64Frames = <<>>
    /\ vision_requests = <<>>
    /\ current_image = FALSE
    /\ calls = 0
    /\ left_column_history = <<>>
    /\ right_column_history = <<>>
    /\ left_waiting = FALSE
    /\ right_waiting = FALSE

Sanitize ==
    /\ pc = "reply"
    /\ fixed_chart' = sanitize_mermaid(flow_chart)
    /\ pc' = "sanitized"
    /\ UNCHANGED <<debug_info, reply, flow_chart, again, frame, move_text, outcome,
                 provider, request, counter_flowchart, strategy_text, formatted_text, video_page, page_run, battle>>

Resanitize ==
    /\ pc = "sanitized"
    /\ again' = sanitize_mermaid(fixed_chart)
    /\ pc' = "resanitized"
    /\ UNCHANGED <<debug_info, reply, flow_chart, fixed_chart, frame, move_text, outcome,
                 provider, request, counter_flowchart, strategy_text, formatted_text, video_page, page_run, battle>>

Next == Sanitize \/ Resanitize

Spec == Init /\ [][Next]_vars

-----------------------------------------------------------------------------
(* A debug-wrapped, possibly fenced chart as the completion service writes *)
(* it: a declaration and statements, one per line                          *)

\* the most statements in a reply, and the most pieces of text in front of the marker
MaxStatements == 2
MaxDebug == 2

Guard == <<"G","u","a","r","d">>
SideControl == <<"S","i","d","e"," ","C","o","n","t","r","o","l">>
Pass == <<"p","a","s","s">>
GraphLR == <<"g","r","a","p","h"," ","L","R">>

\* a node reference: its id, and its label when it carries one
Node(id, label) == [id |-> id, label |-> label]
Bare(id) == Node(id, <<>>)
Labelled(id, text) == Node(id, <<text>>)

\* a statement: a source node and, when it is an edge, the edge label and the target
NodeStatement(n) == [src |-> n, spaced |-> FALSE, edge |-> <<>>, dst |-> <<>>]
EdgeStatement(n, spaced, edge, m) == [src |-> n, spaced |-> spaced, edge |-> edge, dst |-> <<m>>]

\* the label as written: wrapped in double quotes or bare
Written(text, quoted) == IF quoted THEN Quote \o text \o Quote ELSE text

RenderNode(n, quoted) ==
    n.id \o (IF n.label = <<>> THEN <<>> ELSE <<"[">> \o Written(n.label[1], quoted) \o <<"]">>)

\* the statement as one line of chart text
RenderStatement(st, quoted) ==
    LET gap == IF st.spaced THEN <<" ">> ELSE <<>>
    IN  RenderNode(st.src, quoted)
        \o (IF st.dst = <<>>
            THEN (IF st.edge = <<>> THEN <<>>
                  ELSE gap \o Arrow \o <<"|">> \o Written(st.edge[1], quoted))
            ELSE gap \o Arrow
                 \o (IF st.edge = <<>> THEN <<>>
                     ELSE <<"|">> \o Written(st.edge[1], quoted) \o <<"|">>)
                 \o gap \o RenderNode(st.dst[1], quoted))

\* the labels a statement writes
LabelsOf(st) ==
    {st.src.label[k] : k \in 1..Len(st.src.label)}
    \cup {st.edge[k] : k \in 1..Len(st.edge)}
    \cup (IF st.dst = <<>> THEN {} ELSE {st.dst[1].label[k] : k \in 1..Len(st.dst[1].label)})

\* no label of the statement holds a double quote
Unquoted(st) == \A l \in LabelsOf(st) : ~Contains(l, Quote)

\* A[Guard]-->|pass|B[Side Control]
GuardPass == EdgeStatement(Labelled(<<"A">>, Guard), FALSE, <<Pass>>, Labelled(<<"B">>, SideControl))

\* the statements a reply is made of
Statements ==
    { GuardPass,
      \* A[Guard] --> B[Side Control]
      EdgeStatement(Labelled(<<"A">>, Guard), TRUE, <<>>, Labelled(<<"B">>, SideControl)),
      \* B -->|pass| A[Guard]
      EdgeStatement(Bare(<<"B">>), TRUE, <<Pass>>, Labelled(<<"A">>, Guard)),
      \* B[Side Control]
      NodeStatement(Labelled(<<"B">>, SideControl)),
      \* A["Guard"]-->|"pass"|B["Side Control"]
      EdgeStatement(Labelled(<<"A">>, Written(Guard, TRUE)), FALSE, <<Written(Pass, TRUE)>>,
                    Labelled(<<"B">>, Written(SideControl, TRUE))),
      \* A["Guard]-->B, the closing quote missing
      EdgeStatement(Labelled(<<"A">>, Quote \o Guard), FALSE, <<>>, Bare(<<"B">>)),
      \* A[ Guard ]-->| pass |B, the labels written with spaces around them
      EdgeStatement(Labelled(<<"A">>, <<" ">> \o Guard \o <<" ">>), FALSE,
                    <<(<<" ">> \o Pass \o <<" ">>)>>, Bare(<<"B">>)) }

\* the chart text of a reply, inside ```mermaid ... ``` when fenced
RenderReply(r) ==
    LET chart == Join(<<r.declaration>>
                      \o [k \in 1..Len(r.statements) |-> RenderStatement(r.statements[k], FALSE)],
                      NL)
    IN  IF r.fenced THEN FenceMermaid \o NL \o chart \o NL \o Fence ELSE chart

ChartReplies ==
    [fenced : BOOLEAN, declaration : {GraphTD, GraphLR},
     statements : SeqsUpTo(Statements, MaxStatements)]

\* the pieces of text in front of the marker: the "DEBUG INFO:" tag, a note, a note
\* that mentions a graph
DebugPieces == { DEBUG_INFO, <<"z">>, <<"g","r","a","p","h"," ","z">> }

Preambles == {Flatten(ps) : ps \in SeqsUpTo(DebugPieces, MaxDebug)}

\* preamble, marker and chart, laid out as lines 249 and 311 lay them out
Wrapped(preamble, chart) == preamble \o NL \o NL \o MERMAID \o NL \o chart

PipelineInit ==
    /\ pc = "reply"
    /\ debug_info \in Preambles
    /\ reply \in ChartReplies
    /\ flow_chart = Wrapped(debug_info, RenderReply(reply))
    /\ fixed_chart = <<>>
    /\ again = <<>>
    /\ frame = NoFrame
    /\ move_text = <<>>
    /\ outcome = NoOutcome
    /\ provider = NoProvider
    /\ request = NoRequest
    /\ counter_flowchart = <<>>
    /\ strategy_text = <<>>
    /\ formatted_text = <<>>
    /\ temp_dirs = 0
    /\ base64Frames = <<>>
    /\ vision_requests = <<>>
    /\ current_image = FALSE
    /\ calls = 0
    /\ left_column_history = <<>>
    /\ right_column_history = <<>>
    /\ left_waiting = FALSE
    /\ right_waiting = FALSE

PipelineNext == Sanitize

PipelineSpec == PipelineInit /\ [][PipelineNext]_vars

-----------------------------------------------------------------------------
(* sanitize_mermaid run loop by loop: one step per pass of the for loop    *)
(* over the lines and per pass of each of the two while loops              *)

\* the longest chart body of the loop-by-loop runs, in tokens
MaxLoopTokens == 3

\* the pieces the two quoting loops look for, next to text and line ends
LoopTokens == { <<"[">>, <<"]">>, ArrowPipe, <<"|">>, Quote, <<"a">>, NL }

LoopCharts ==
    {GraphTD \o NL \o Flatten(ts) : ts \in SeqsUpTo(LoopTokens, MaxLoopTokens)}
        \cup {HelloWorld}
        \cup {RenderReply([fenced |-> FALSE, declaration |-> GraphTD, statements |-> <<st>>])
                : st \in Statements}

\* lines 414-432 without line 432: the search never moves past the bracket it found
BracketIterationStuck(new_line, bracket_start) ==
    IF ~Contains(SliceFrom(new_line, bracket_start), <<"[">>)
    THEN [exit |-> TRUE, new_line |-> new_line, bracket_start |-> bracket_start]
    ELSE LET bs == Find(new_line, <<"[">>, bracket_start)
             bracket_end == Find(new_line, <<"]">>, bs)
             label == Slice(new_line, bs + 1, bracket_end)
         IN  IF bracket_end = -1
             THEN [exit |-> TRUE, new_line |-> new_line, bracket_start |-> bs]
             ELSE IF ~IsQuoted(label)
             THEN [exit |-> FALSE,
                   new_line |-> Slice(new_line, 0, bs + 1) \o Quote \o label \o Quote
                                    \o SliceFrom(new_line, bracket_end),
                   bracket_start |-> bs]
             ELSE [exit |-> FALSE, new_line |-> new_line, bracket_start |-> bs]

\* lines 414-432: the test of the while loop and one pass of its body
BracketIteration(new_line, bracket_start) ==
    IF ~Contains(SliceFrom(new_line, bracket_start), <<"[">>)
    THEN [exit |-> TRUE, new_line |-> new_line, bracket_start |-> bracket_start]
    ELSE LET bs == Find(new_line, <<"[">>, bracket_start)
             bracket_end == Find(new_line, <<"]">>, bs)
             label == Slice(new_line, bs + 1, bracket_end)
         IN  IF bracket_end = -1
             THEN [exit |-> TRUE, new_line |-> new_line, bracket_start |-> bs]
             ELSE IF ~IsQuoted(label)
             THEN [exit |-> FALSE,
                   new_line |-> Slice(new_line, 0, bs + 1) \o Quote \o label \o Quote
                                    \o SliceFrom(new_line, bracket_end),
                   bracket_start |-> (bracket_end + 2) + 1]
             ELSE [exit |-> FALSE, new_line |-> new_line, bracket_start |-> bracket_end + 1]

\* lines 435-454: the test of the while loop and one pass of its body
ArrowIteration(new_line, arrow_start) ==
    IF ~Contains(SliceFrom(new_line, arrow_start), ArrowPipe)
    THEN [exit |-> TRUE, new_line |-> new_line, arrow_start |-> arrow_start]
    ELSE LET arrow_at == Find(new_line, ArrowPipe, arrow_start)
             pipe_start == arrow_at + 4
             pipe_end == Find(new_line, <<"|">>, pipe_start)
             label == Slice(new_line, pipe_start, pipe_end)
         IN  IF pipe_end = -1
             THEN [exit |-> TRUE, new_line |-> new_line, arrow_start |-> arrow_at]
             ELSE IF ~IsQuoted(label)
             THEN [exit |-> FALSE,
                   new_line |-> Slice(new_line, 0, pipe_start) \o Quote \o label \o Quote
                                    \o SliceFrom(new_line, pipe_end),
                   arrow_start |-> (pipe_end + 2) + 1]
             ELSE [exit |-> FALSE, new_line |-> new_line, arrow_start |-> pipe_end + 1]

LoopInit ==
    /\ pc = "call"
    /\ debug_info = <<>>
    /\ reply = NoReply
    /\ flow_chart \in LoopCharts
    /\ fixed_chart = <<>>
    /\ again = <<>>
    /\ frame = NoFrame
    /\ move_text = <<>>
    /\ outcome = NoOutcome
    /\ provider = NoProvider
    /\ request = NoRequest
    /\ counter_flowchart = <<>>
    /\ strategy_text = <<>>
    /\ formatted_text = <<>>
    /\ temp_dirs = 0
    /\ base64Frames = <<>>
    /\ vision_requests = <<>>
    /\ current_image = FALSE
    /\ calls = 0
    /\ left_column_history = <<>>
    /\ right_column_history = <<>>
    /\ left_waiting = FALSE
    /\ right_waiting = FALSE

\* lines 348-392: the text is prepared, split into lines, and the first line is written
Enter ==
    /\ pc = "call"
    /\ LET chart == EnsureDeclaration(StripFences(StripDebugTail(StripDebugSection(flow_chart))))
           lines == Split(Strip(chart), NL)
       IN  frame' = [NoFrame EXCEPT !.lines = Tail(lines),
                                    !.clean_lines = <<DeclarationLine(lines)>>]
    /\ pc' = "for"
    /\ UNCHANGED <<debug_info, reply, flow_chart, fixed_chart, again, move_text, outcome,
                 provider, request, counter_flowchart, strategy_text, formatted_text, video_page, page_run, battle>>

\* lines 395-411: the for loop takes its next line, skips it or starts quoting it
NextLine ==
    /\ pc = "for"
    /\ frame.lines # <<>>
    /\ LET line == Strip(Head(frame.lines))
       IN  IF line = <<>> \/ IsGraphDeclaration(line)
           THEN /\ frame' = [frame EXCEPT !.lines = Tail(frame.lines)]
                /\ pc' = "for"
           ELSE /\ frame' = [frame EXCEPT !.lines = Tail(frame.lines),
                                          !.new_line = Indent(line),
                                          !.bracket_start = 0]
                /\ pc' = "brackets"
    /\ UNCHANGED <<debug_info, reply, flow_chart, fixed_chart, again, move_text, outcome,
                 provider, request, counter_flowchart, strategy_text, formatted_text, video_page, page_run, battle>>

\* lines 414-435: one pass of the bracket loop, or its end
BracketStep ==
    /\ pc = "brackets"
    /\ LET it == BracketIteration(frame.new_line, frame.bracket_start)
       IN  /\ frame' = [frame EXCEPT !.new_line = it.new_line,
                                     !.bracket_start = it.bracket_start,
                                     !.arrow_start = 0]
           /\ pc' = IF it.exit THEN "arrows" ELSE "brackets"
    /\ UNCHANGED <<debug_info, reply, flow_chart, fixed_chart, again, move_text, outcome,
                 provider, request, counter_flowchart, strategy_text, formatted_text, video_page, page_run, battle>>

\* lines 436-456: one pass of the arrow loop, or its end and the line is kept
ArrowStep ==
    /\ pc = "arrows"
    /\ LET it == ArrowIteration(frame.new_line, frame.arrow_start)
       IN  /\ frame' = [frame EXCEPT !.new_line = it.new_line,
                                     !.arrow_start = it.arrow_start,
                                     !.clean_lines = IF it.exit THEN Append(@, it.new_line) ELSE @]
           /\ pc' = IF it.exit THEN "for" ELSE "arrows"
    /\ UNCHANGED <<debug_info, reply, flow_chart, fixed_chart, again, move_text, outcome,
                 provider, request, counter_flowchart, strategy_text, formatted_text, video_page, page_run, battle>>

\* lines 459-467: the lines are joined, the four replacements made, the chart returned
Return ==
    /\ pc = "for"
    /\ frame.lines = <<>>
    /\ fixed_chart' = FixFormatting(Join(frame.clean_lines, NL))
    /\ pc' = "returned"
    /\ UNCHANGED <<debug_info, reply, flow_chart, again, frame, move_text, outcome,
                 provider, request, counter_flowchart, strategy_text, formatted_text, video_page, page_run, battle>>

LoopNext == Enter \/ NextLine \/ BracketStep \/ ArrowStep \/ Return

LoopSpec == LoopInit /\ [][LoopNext]_vars

\* the interpreter keeps running a loop it is in: a pass that can be made is made
LoopFairSpec == LoopSpec /\ WF_vars(BracketStep) /\ WF_vars(ArrowStep)

-----------------------------------------------------------------------------
(* next_move and the request it makes (src/jiu_jitsu_functions.py)         *)

UpperCase == <<"A","B","C","D","E","F","G","H","I","J","K","L","M",
               "N","O","P","Q","R","S","T","U","V","W","X","Y","Z">>
LowerCase == <<"a","b","c","d","e","f","g","h","i","j","k","l","m",
               "n","o","p","q","r","s","t","u","v","w","x","y","z">>

\* s.lower()
Lower(s) ==
    [i \in 1..Len(s) |->
        IF \E k \in 1..Len(UpperCase) : UpperCase[k] = s[i]
        THEN LowerCase[CHOOSE k \in 1..Len(UpperCase) : UpperCase[k] = s[i]]
        ELSE s[i]]

\* s.split(sep, 1)
SplitOnce(s, sep) ==
    LET i == Find(s, sep, 0)
    IN  IF i = -1 THEN <<s>> ELSE <<Slice(s, 0, i), SliceFrom(s, i + Len(sep))>>

\* what the user typed next to the chart: attributes and ideas
Measurables == <<"m">>
FavoriteIdeas == <<>>

ErrNoKey ==
    <<"E","r","r","o","r",":"," ","O","p","e","n","A","I"," ","A","P","I"," ","K","e","y"," ",
      "n","o","t"," ","f","o","u","n","d"," ","i","n"," ","e","n","v","i","r","o","n","m","e",
      "n","t"," ","v","a","r","i","a","b","l","e","s">>
ErrNoStart ==
    <<"E","r","r","o","r",":"," ","G","e","n","e","r","a","t","e","d"," ","f","l","o","w","c",
      "h","a","r","t"," ","d","o","e","s","n","'","t"," ","c","o","n","t","a","i","n"," ","t",
      "h","e"," ","s","t","a","r","t","i","n","g"," ","p","o","s","i","t","i","o","n",":"," ",
      "'">>
ErrPlaceholder ==
    <<"E","r","r","o","r",":"," ","G","e","n","e","r","a","t","e","d"," ","f","l","o","w","c",
      "h","a","r","t"," ","c","o","n","t","a","i","n","s"," ","g","e","n","e","r","i","c"," ",
      "p","l","a","c","e","h","o","l","d","e","r",":"," ","'">>
ErrGeneratingText ==
    <<"E","r","r","o","r"," ","g","e","n","e","r","a","t","i","n","g"," ","t","e","x","t",":",
      " ">>
FenceHtml == Fence \o <<"h","t","m","l">>
Position1 == <<"P","o","s","i","t","i","o","n"," ","1">>
Position2 == <<"P","o","s","i","t","i","o","n"," ","2">>
Submission1 == <<"S","u","b","m","i","s","s","i","o","n"," ","1">>
Submission2 == <<"S","u","b","m","i","s","s","i","o","n"," ","2">>
DefaultGraph == <<"D","e","f","a","u","l","t"," ","G","r","a","p","h">>

\* a deny list that has lost its last name
placeholdersWithoutLast == <<Position1, Position2, Submission1, Submission2>>

\* line 243: the deny list, in the order it is walked
placeholders == <<Position1, Position2, Submission1, Submission2, DefaultGraph>>

\* str(isMMA)
BoolText(b) == IF b THEN <<"T","r","u","e">> ELSE <<"F","a","l","s","e">>

\* src/genai.py:36-37, the trace generate_text keeps of its own call
GenerateTextTrace ==
    <<"C","a","l","l","i","n","g"," ","O","p","e","n","A","I"," ","A","P","I",".",".",".","\n">>

\* src/genai.py:32-65: the reply with its fences removed and the trace appended,
\* or the text of the failure followed by the trace
generate_text(completion) ==
    IF completion.ok
    THEN Replace(Replace(completion.content, FenceHtml, <<>>), Fence, <<>>)
             \o NL \o NL \o DebugTail \o <<" ">> \o GenerateTextTrace \o <<"]">>
    ELSE ErrGeneratingText \o completion.content \o NL \o GenerateTextTrace

\* the least index of a non-empty set of indexes
First(hits) == CHOOSE i \in hits : \A j \in hits : i <= j

\* lines 232-236: the first of the parts that holds "graph", when there is one
GraphPart(mermaid_object, code_parts) ==
    LET holding == {i \in 1..Len(code_parts) : Contains(code_parts[i], <<"g","r","a","p","h">>)}
    IN  IF holding = {} THEN mermaid_object ELSE Strip(code_parts[First(holding)])

\* lines 231-236: the reply cut down to its fenced code
CodePart(mermaid_object) ==
    IF Contains(mermaid_object, Fence) THEN GraphPart(mermaid_object, Split(mermaid_object, Fence))
    ELSE mermaid_object

\* line 150: the record of the call that is put in front of the chart
DebugInfoText(measurables, starting_position, isMMA, favorite_ideas) ==
    <<"F","u","n","c","t","i","o","n"," ","c","a","l","l","e","d"," ","w","i","t","h",":","\n",
      "m","e","a","s","u","r","a","b","l","e","s",":"," ">>
        \o measurables \o NL
        \o <<"s","t","a","r","t","i","n","g","_","p","o","s","i","t","i","o","n",":"," ">>
        \o starting_position \o NL
        \o <<"i","s","M","M","A",":"," ">> \o BoolText(isMMA) \o NL
        \o <<"f","a","v","o","r","i","t","e","_","i","d","e","a","s",":"," ">>
        \o favorite_ideas \o NL

\* lines 239-249: the reply is refused without the starting position or with a
\* placeholder name, and is returned behind the record of the call otherwise
CheckedChart(debug_info_text, starting_position, mermaid_object) ==
    LET found == {i \in 1..Len(placeholders) : Contains(mermaid_object, placeholders[i])}
    IN  IF ~Contains(mermaid_object, starting_position)
        THEN ErrNoStart \o starting_position \o <<"'">>
        ELSE IF found # {}
        THEN ErrPlaceholder \o placeholders[First(found)] \o <<"'">>
        ELSE DEBUG_INFO \o NL \o debug_info_text \o NL \o NL \o MERMAID \o NL \o mermaid_object

\* lines 128-254: the text returned and the number of completion requests made
generate_flow_chart_with_start(measurables, starting_position, isMMA, favorite_ideas, api_key, completion) ==
    IF ~api_key THEN [text |-> ErrNoKey, requests |-> 0]
    ELSE [text |-> CheckedChart(DebugInfoText(measurables, starting_position, isMMA,
                                              favorite_ideas),
                                starting_position,
                                CodePart(StripDebugTail(generate_text(completion)))),
          requests |-> 1]

\* lines 1185-1188: the text after the "MERMAID:" marker, when a debug preamble is there
CutPreamble(given) ==
    IF Contains(given, DEBUG_INFO) /\ Contains(given, MERMAID) /\ Len(Split(given, MERMAID)) > 1
    THEN Strip(Split(given, MERMAID)[2])
    ELSE given

\* lines 1191-1192: the text in front of "[Debug:", when a debug tail is there
CutTail(text) ==
    IF Contains(text, DebugTail) THEN Strip(Split(text, DebugTail)[1]) ELSE text

\* lines 1185-1192: the debug preamble and the debug tail are cut from the given text
WithoutDebug(given) == CutTail(CutPreamble(given))

\* lines 1209-1210: text[1:-1] when the text starts and ends with a double quote
StripQuotes(text) ==
    IF StartsWith(text, Quote) /\ EndsWith(text, Quote) THEN Slice(text, 1, Len(text) - 1)
    ELSE text

\* lines 1202: the line holds an opening and a closing bracket
HasBrackets(line) == Contains(line, <<"[">>) /\ Contains(line, <<"]">>)

\* lines 1204-1210: the text between the first '[' and the first ']' of the line
BracketText(line) ==
    LET start_idx == Find(line, <<"[">>, 0)
        end_idx == Find(line, <<"]">>, 0)
    IN  StripQuotes(Strip(Slice(line, start_idx + 1, end_idx)))

\* lines 1215: what stands in front of the first '['
BeforeBracket(line) == Strip(Slice(line, 0, Find(line, <<"[">>, 0)))

\* lines 1202-1213: the line's bracketed text holds the move text, letter case aside
NodeMatches(line, move) ==
    HasBrackets(line) /\ Contains(Lower(BracketText(line)), Lower(move))

\* nothing found: new_position and node_id are None
NoPivot == [found |-> FALSE, node_id |-> <<>>, new_position |-> <<>>]

\* lines 1215-1216: the node id and the position the line gives
NodeOf(line) ==
    [found |-> TRUE, node_id |-> BeforeBracket(line), new_position |-> BracketText(line)]

\* lines 1201-1217: the first line whose bracketed text matches
NodeScan(lines, move) ==
    LET hits == {i \in 1..Len(lines) : NodeMatches(lines[i], move)}
    IN  IF hits = {} THEN NoPivot ELSE NodeOf(lines[First(hits)])

\* lines 1222: the line holds "-->|" and a closing pipe after it
HasArrowLabel(line) ==
    /\ Contains(line, ArrowPipe)
    /\ Contains(SliceFrom(line, Find(line, ArrowPipe, 0) + 4), <<"|">>)

\* lines 1224-1230: the text between "-->|" and the next pipe
ArrowText(line) ==
    LET start_idx == Find(line, ArrowPipe, 0) + 4
        end_idx == Find(line, <<"|">>, start_idx)
    IN  StripQuotes(Strip(Slice(line, start_idx, end_idx)))

\* lines 1235-1237: what follows the closing pipe of the first label
TargetPart(line) ==
    LET parts == SplitOnce(line, <<"|">>)
    IN  IF Contains(parts[2], <<"|">>) THEN Split(parts[2], <<"|">>)[2] ELSE parts[2]

\* lines 1222-1251: the arrow label holds the move text and the target is bracketed
EdgeMatches(line, move) ==
    /\ HasArrowLabel(line)
    /\ Contains(Lower(ArrowText(line)), Lower(move))
    /\ Len(SplitOnce(line, <<"|">>)) > 1
    /\ HasBrackets(TargetPart(line))

\* lines 1220-1251: the target of the first line whose arrow label matches
EdgeScan(lines, move) ==
    LET hits == {i \in 1..Len(lines) : EdgeMatches(lines[i], move)}
    IN  IF hits = {} THEN NoPivot ELSE NodeOf(TargetPart(lines[First(hits)]))

\* lines 1219: the arrow labels decide when the node labels left new_position unset
PivotOf(node, edge) ==
    IF node.new_position # <<>>
    THEN [scan |-> "node", node_id |-> node.node_id, new_position |-> node.new_position]
    ELSE IF edge.found
    THEN [scan |-> "edge", node_id |-> edge.node_id, new_position |-> edge.new_position]
    ELSE [scan |-> "none", node_id |-> node.node_id, new_position |-> node.new_position]

\* lines 1200-1251: node labels first, then arrow labels
ResolvePivot(lines, move) == PivotOf(NodeScan(lines, move), EdgeScan(lines, move))

\* lines 1262-1270 and 1275-1283: the bracketed text of the part, when it has one
ContextText(parts) ==
    IF Find(parts, <<"[">>, 0) >= 0 /\ Find(parts, <<"]">>, 0) >= 0
    THEN <<BracketText(parts)>>
    ELSE <<>>

\* lines 1256-1283: what one line adds to context_nodes, or the IndexError of
\* line 1260 when the label has no closing pipe
ContextOf(line, node_id) ==
    IF StartsWith(Strip(line), node_id) /\ Contains(line, ArrowPipe)
    THEN IF HasBrackets(line)
         THEN LET after == SplitOnce(SplitOnce(line, ArrowPipe)[2], <<"|">>)
              IN  IF Len(after) > 1 THEN [raised |-> FALSE, nodes |-> ContextText(after[2])]
                  ELSE [raised |-> TRUE, nodes |-> <<>>]
         ELSE [raised |-> FALSE, nodes |-> <<>>]
    ELSE IF Contains(line, ArrowPipe) /\ Contains(SplitOnce(line, ArrowPipe)[2], node_id)
    THEN IF HasBrackets(line)
         THEN [raised |-> FALSE, nodes |-> ContextText(SplitOnce(line, ArrowPipe)[1])]
         ELSE [raised |-> FALSE, nodes |-> <<>>]
    ELSE [raised |-> FALSE, nodes |-> <<>>]

RECURSIVE ContextNodes(_, _)
\* lines 1254-1283: context_nodes over all lines, in order; a raise ends the loop
ContextNodes(lines, node_id) ==
    IF lines = <<>> THEN [raised |-> FALSE, nodes |-> <<>>]
    ELSE LET here == ContextOf(lines[1], node_id)
             rest == ContextNodes(Tail(lines), node_id)
         IN  IF here.raised THEN here
             ELSE [raised |-> rest.raised, nodes |-> here.nodes \o rest.nodes]

\* lines 1254: context is collected when a node id was found
ContextFor(lines, pivot) ==
    IF pivot.node_id # <<>> THEN ContextNodes(lines, pivot.node_id)
    ELSE [raised |-> FALSE, nodes |-> <<>>]

\* lines 1293-1295: the sentence that names the connected positions
ContextInfo(context_nodes) ==
    IF context_nodes # <<>>
    THEN <<"C","o","n","n","e","c","t"," ","t","o"," ","p","r","e","v","i","o","u","s","l","y",
           " ","l","i","s","t","e","d"," ","f","l","o","w"," ","c","h","a","r","t"," ","p","o",
           "s","i","t","i","o","n","s"," ","w","i","t","h"," ","t","h","e"," ","c","o","r","r",
           "e","c","t"," ","l","o","g","i","c","a","l"," ","s","t","r","u","c","t","u","r","e",
           ":"," ">> \o Join(context_nodes, <<",", " ">>) \o <<".", " ">>
    ELSE <<>>

\* lines 1285-1300: the chart itself when no position was found, a generated chart otherwise
Answer(chart, pivot, context, generated) ==
    LET found == [NoOutcome EXCEPT !.scan = pivot.scan, !.node_id = pivot.node_id,
                                   !.new_position = pivot.new_position,
                                   !.context_nodes = context.nodes]
    IN  IF context.raised THEN [found EXCEPT !.raised = TRUE]
        ELSE IF pivot.new_position = <<>> THEN [found EXCEPT !.returned = chart]
        ELSE [found EXCEPT !.returned = generated.text, !.requests = generated.requests]

\* lines 1253-1300: with the pivot resolved and the context collected
MoveWith(chart, pivot, context, measurables, isMMA, favorite_ideas, api_key, completion) ==
    Answer(chart, pivot, context,
           generate_flow_chart_with_start(measurables, pivot.new_position, isMMA,
                                          ContextInfo(context.nodes) \o favorite_ideas,
                                          api_key, completion))

\* lines 1253-1300: with the pivot resolved
MoveIn(chart, lines, pivot, measurables, isMMA, favorite_ideas, api_key, completion) ==
    MoveWith(chart, pivot, ContextFor(lines, pivot),
             measurables, isMMA, favorite_ideas, api_key, completion)

\* lines 1200-1300: with the chart split into lines
MoveOn(chart, lines, move, measurables, isMMA, favorite_ideas, api_key, completion) ==
    MoveIn(chart, lines, ResolvePivot(lines, move),
           measurables, isMMA, favorite_ideas, api_key, completion)

\* lines 1194-1300: with the debug text cut from the chart
MoveFrom(chart, move, measurables, isMMA, favorite_ideas, api_key, completion) ==
    MoveOn(chart, Split(Strip(chart), NL), move,
           measurables, isMMA, favorite_ideas, api_key, completion)

\* lines 1161-1300
next_move(given, move, measurables, isMMA, favorite_ideas, api_key, completion) ==
    MoveFrom(WithoutDebug(given), move, measurables, isMMA, favorite_ideas, api_key, completion)

-----------------------------------------------------------------------------
(* The chart page: a generated chart is sanitized and stored, then the     *)
(* user names a move and presses Flow (src/flowstate.py:611-622, 711-741)  *)

\* the rules the user selected
IsMMA == TRUE

\* what the user types as the next move
Queries == { <<"s">>, <<"G","U","A","R","D">>, Pass, <<"t","d">>, <<"z","z">> }

\* what the completion service does with the request: a chart around Guard, a chart
\* with a placeholder name, free text, or a failure
Completions ==
    { [ok |-> TRUE,
       content |-> GraphLR \o NL \o RenderStatement(GuardPass, TRUE)],
      [ok |-> TRUE,
       content |-> GraphLR \o NL
                   \o RenderStatement(NodeStatement(Labelled(<<"A">>, Position1)), TRUE)
                   \o NL \o RenderStatement(NodeStatement(Labelled(<<"B">>, Guard)), TRUE)],
      [ok |-> TRUE, content |-> HelloWorld],
      [ok |-> FALSE, content |-> <<"t","i","m","e","o","u","t">>] }

\* what a reply may carry after its last statement: nothing, or a note in an open bracket
Trailers == { <<>>, NL \o <<"["," ","D","e","b","u","g",":"," ","x">> }

\* A[Guard] -->|pass, the label never closed and the target missing
OpenEdge == [src |-> Labelled(<<"A">>, Guard), spaced |-> TRUE, edge |-> <<Pass>>, dst |-> <<>>]

\* A[Guard] -->|pass| B, the target named by its id alone
BareTarget == EdgeStatement(Labelled(<<"A">>, Guard), TRUE, <<Pass>>, Bare(<<"B">>))

\* the statements of a stored chart: those of a reply, a third node, and the two above
FlowStatements ==
    Statements
        \cup {NodeStatement(Labelled(<<"C">>, <<"S","w","e","e","p">>)), OpenEdge, BareTarget}

FlowReplies ==
    [fenced : {FALSE}, declaration : {GraphTD},
     statements : SeqsUpTo(FlowStatements, MaxStatements)]

FlowInit ==
    /\ pc = "reply"
    /\ debug_info = DEBUG_INFO
    /\ reply \in FlowReplies
    /\ \E trailer \in Trailers : flow_chart = Wrapped(debug_info, RenderReply(reply) \o trailer)
    /\ fixed_chart = <<>>
    /\ again = <<>>
    /\ frame = NoFrame
    /\ move_text = <<>>
    /\ outcome = NoOutcome
    /\ provider = NoProvider
    /\ request = NoRequest
    /\ counter_flowchart = <<>>
    /\ strategy_text = <<>>
    /\ formatted_text = <<>>
    /\ temp_dirs = 0
    /\ base64Frames = <<>>
    /\ vision_requests = <<>>
    /\ current_image \in BOOLEAN
    /\ calls = 0
    /\ left_column_history = <<>>
    /\ right_column_history = <<>>
    /\ left_waiting = FALSE
    /\ right_waiting = FALSE

\* src/flowstate.py:585-598, src/jiu_jitsu_functions.py:1381-1418: the requests
\* one run of the chart page makes before it looks at its buttons: one for the
\* attributes of the uploaded image, when a position is typed and a key is set
AttributeRequests(position_variable, api_key) ==
    IF current_image /\ position_variable # <<>> /\ api_key THEN 1 ELSE 0

\* the completion service is asked only when the call made a request
Asked(requests, completion) == IF requests = 0 THEN NoProvider ELSE completion

\* src/flowstate.py:711-741: the move is looked up in the stored chart; when it is there,
\* next_move is called, its result sanitized and stored; an exception is reported
FlowButton ==
    /\ pc = "sanitized"
    /\ \E chosen_next \in Queries, position_variable \in {<<>>, Guard},
          api_key \in BOOLEAN, completion \in Completions :
          /\ move_text' = chosen_next
          /\ IF ~(fixed_chart # <<>> /\ Contains(Lower(fixed_chart), Lower(chosen_next)))
             THEN /\ pc' = "not_found"
                  /\ calls' = AttributeRequests(position_variable, api_key)
                  /\ UNCHANGED <<flow_chart, fixed_chart, outcome, provider>>
             ELSE /\ outcome' = next_move(fixed_chart, chosen_next, Measurables, IsMMA,
                                          FavoriteIdeas, api_key, completion)
                  /\ provider' = Asked(outcome'.requests, completion)
                  /\ flow_chart' = fixed_chart
                  /\ IF outcome'.raised
                     THEN /\ pc' = "error"
                          /\ calls' = AttributeRequests(position_variable, api_key)
                                        + outcome'.requests
                          /\ UNCHANGED fixed_chart
                     ELSE \* line 739: st.rerun() runs the page once more
                          /\ pc' = "moved"
                          /\ calls' = AttributeRequests(position_variable, api_key)
                                        + outcome'.requests
                                        + AttributeRequests(position_variable, api_key)
                          /\ fixed_chart' = sanitize_mermaid(outcome'.returned)
    /\ UNCHANGED <<debug_info, reply, again, frame, request, counter_flowchart,
                 strategy_text, formatted_text, video_page, current_image, battle>>

FlowNext == Sanitize \/ FlowButton

FlowSpec == FlowInit /\ [][FlowNext]_vars

-----------------------------------------------------------------------------
(* Reading a chart back                                                    *)

\* the lines of a chart
LinesOf(chart) == Split(chart, NL)

\* a line that begins, after its indentation, with a diagram keyword
IsDeclarationLine(line) == \E kw \in DeclarationKeywords : StartsWith(Strip(line), kw)

\* the node id of one side of an arrow: without a leading |label| and a trailing [text]
IdOf(part) ==
    LET p == Strip(part)
        q == IF StartsWith(p, <<"|">>) /\ Find(p, <<"|">>, 1) # -1
             THEN SliceFrom(p, Find(p, <<"|">>, 1) + 1) ELSE p
    IN  Strip(IF Contains(q, <<"[">>) THEN Slice(q, 0, Find(q, <<"[">>, 0)) ELSE q)

\* the node ids of the statement lines of a chart
NodeIds(chart) ==
    LET lines == LinesOf(chart)
    IN  UNION { {IdOf(Split(lines[n], Arrow)[k]) : k \in 1..Len(Split(lines[n], Arrow))}
                : n \in 2..Len(lines) }

\* the text lines 365-381 replace by the default chart: after the debug and fence
\* stripping it neither starts with a keyword nor holds "graph " or "flowchart "
NeedsDefault(text) ==
    LET t == StripFences(StripDebugTail(StripDebugSection(text)))
    IN  ~StartsWithDeclaration(t) /\ ~Contains(t, KwGraph) /\ ~Contains(t, KwFlowchart)

\* graph TD / A["Starting Position"] --> B["Position 1"] / A --> C["Position 2"] /
\* B --> D["Submission 1"] / C --> E["Submission 2"], each statement indented by four
FallbackText ==
    Join(<< GraphTD,
       <<" "," "," "," ","A","[","\"","S","t","a","r","t","i","n","g"," ","P","o","s","i","t","i","o","n",
         "\"","]"," ","-","-",">"," ","B","[","\"","P","o","s","i","t","i","o","n"," ","1","\"","]">>,
       <<" "," "," "," ","A"," ","-","-",">"," ","C","[","\"","P","o","s","i","t","i","o","n"," ","2","\"","]">>,
       <<" "," "," "," ","B"," ","-","-",">"," ","D","[","\"","S","u","b","m","i","s","s","i","o","n"," ","1",
         "\"","]">>,
       <<" "," "," "," ","C"," ","-","-",">"," ","E","[","\"","S","u","b","m","i","s","s","i","o","n"," ","2",
         "\"","]">> >>, NL)

-----------------------------------------------------------------------------
(* Claims on the sanitizer, over every reply (Spec)                        *)

\* C1: sanitize_mermaid is idempotent: sanitizing its own result changes nothing.
C1_Idempotent == pc = "resanitized" => again = fixed_chart

\* C7: the first line of the result is a declaration line (it begins with one of the
\* recognized diagram keywords) and no later line of the result is one.
C7_OneDeclarationLine ==
    pc # "reply" =>
        LET lines == LinesOf(fixed_chart)
        IN  /\ IsDeclarationLine(lines[1])
            /\ \A n \in 2..Len(lines) : ~IsDeclarationLine(lines[n])

\* C8: the result holds no markdown fence (three consecutive backticks), also when the
\* three backticks only come together once other text has been removed.
C8_NoFence == pc # "reply" => ~Contains(fixed_chart, Fence)

\* C8 witness: a reply with a tagged fence whose removal leaves (or forms) a plain fence
C8_Witness ==
    /\ pc = "sanitized"
    /\ Contains(flow_chart, FenceMermaid)
    /\ Contains(Replace(flow_chart, FenceMermaid, <<>>), Fence)

\* C4 as stated: a reply with no declaration and no graph fragment gives the literal
\* fallback, a top-down declaration and the fallback graph of 4 nodes.
C4_FallbackFourNodes ==
    (pc # "reply" /\ NeedsDefault(flow_chart)) =>
        (fixed_chart = FallbackText /\ Cardinality(NodeIds(fixed_chart)) = 4)

\* C4 amended: a reply with no declaration and no graph fragment gives the literal
\* fallback, which has the 5 nodes A to E (and 4 edges).
C4_FallbackLiteral ==
    (pc # "reply" /\ NeedsDefault(flow_chart)) =>
        (fixed_chart = FallbackText /\ Cardinality(NodeIds(fixed_chart)) = 5)

\* C4 witness: "hello world" has been sanitized
C4_Witness == pc = "sanitized" /\ flow_chart = HelloWorld /\ fixed_chart = FallbackText

-----------------------------------------------------------------------------
(* Claims on the sanitizer, over debug-wrapped charts (PipelineSpec)       *)

\* the texts between a '[' and the next ']' of a line, no other '[' in between
BracketLabels(line) ==
    { Slice(line, i, Find(line, <<"]">>, i)) :
        i \in { n \in 1..Len(line) :
                  /\ line[n] = "["
                  /\ Find(line, <<"]">>, n) # -1
                  /\ ~Contains(Slice(line, n, Find(line, <<"]">>, n)), <<"[">>) } }

\* the texts between a '-->|' and the next '|' of a line
PipeLabels(line) ==
    { Slice(line, i + 4, Find(line, <<"|">>, i + 4)) :
        i \in { n \in 0..Len(line) : IsAt(line, ArrowPipe, n) /\ Find(line, <<"|">>, n + 4) # -1 } }

\* wrapped in one pair of double quotes: a quote at each end and none inside
WellQuoted(label) ==
    /\ Len(label) >= 2
    /\ label[1] = "\""
    /\ label[Len(label)] = "\""
    /\ \A k \in 2..(Len(label) - 1) : label[k] # "\""

\* C2: in the result, every bracket-delimited node label and every pipe-delimited edge
\* label is wrapped in exactly one pair of double quotes.
C2_QuotedOnce ==
    pc # "reply" =>
        \A n \in 1..Len(LinesOf(fixed_chart)) :
            \A label \in BracketLabels(LinesOf(fixed_chart)[n]) \cup PipeLabels(LinesOf(fixed_chart)[n]) :
                WellQuoted(label)

\* characters only the text in front of the marker (and the marker) holds
PreambleOnly == {"z", "E", "U", "I", "N", "F", "O", ":"}

NoTrace(chart) == \A k \in 1..Len(chart) : chart[k] \notin PreambleOnly

\* C3 as stated: whatever text stands in front of the "MERMAID:" marker, none of it is
\* in the result.
C3_NoPreambleTrace == pc # "reply" => NoTrace(fixed_chart)

\* C3 amended: when the text in front of the marker holds "DEBUG INFO:", none of it is
\* in the result.
C3_NoTaggedPreambleTrace ==
    (pc # "reply" /\ Contains(debug_info, DEBUG_INFO)) => NoTrace(fixed_chart)

\* C3 witness: a tagged preamble with a note that mentions a graph, stripped from a chart
C3_Witness ==
    /\ pc = "sanitized"
    /\ StartsWith(debug_info, DEBUG_INFO)
    /\ Contains(debug_info, KwGraph \o <<"z">>)
    /\ reply.statements # <<>>
    /\ StartsWith(fixed_chart, reply.declaration)

\* the chart C5 expects: the declaration, then each statement indented by four spaces
\* with its labels in double quotes
ExpectedChart(r) ==
    Join(<<r.declaration>>
         \o [k \in 1..Len(r.statements) |-> Spaces(4) \o RenderStatement(r.statements[k], TRUE)],
         NL)

-----------------------------------------------------------------------------
(* The loop-by-loop run                                                    *)

\* every slice and find of the two loops starts inside the line
IndexesInRange ==
    /\ pc = "brackets" => frame.bracket_start \in 0..Len(frame.new_line)
    /\ pc = "arrows" => frame.arrow_start \in 0..Len(frame.new_line)

\* the run returns the chart that sanitize_mermaid computes
ReturnsTheChart == pc = "returned" => fixed_chart = sanitize_mermaid(flow_chart)

\* the for loop works through a list that every pass shortens
ForLoopShortens == [][NextLine => Len(frame'.lines) < Len(frame.lines)]_vars

\* C6: sanitize_mermaid terminates and returns a string for every input:
\* the bracket loop, once entered, reaches the arrow loop, the arrow loop,
\* once entered, hands the line back to the for loop, the for loop shortens
\* its list with every pass, no search or slice starts outside the line it
\* works on, and what is returned is the sanitized chart.
C6_Terminates ==
    /\ [](IndexesInRange /\ ReturnsTheChart)
    /\ ForLoopShortens
    /\ (pc = "brackets" ~> pc = "arrows")
    /\ (pc = "arrows" ~> pc = "for")

\* a chart whose labels both loops quoted has been returned
C6_Witness ==
    /\ pc = "returned"
    /\ ~Contains(flow_chart, Quote)
    /\ Contains(fixed_chart, <<"[">> \o Quote \o Guard \o Quote \o <<"]">>)
    /\ Contains(fixed_chart, ArrowPipe \o Quote \o Pass \o Quote \o <<"|">>)

-----------------------------------------------------------------------------
(* The Flow button                                                         *)

\* the display labels the nodes of a reply carry, and the labels of its edges
NodeLabels(r) ==
    UNION {{StripQuotes(l) : l \in LabelsOf(NodeStatement(r.statements[k].src))}
           \cup (IF r.statements[k].dst = <<>> THEN {}
                 ELSE {StripQuotes(l) : l \in LabelsOf(NodeStatement(r.statements[k].dst[1]))})
           : k \in 1..Len(r.statements)}
EdgeLabels(r) ==
    {StripQuotes(r.statements[k].edge[1]) :
        k \in {j \in 1..Len(r.statements) :
                  r.statements[j].edge # <<>> /\ r.statements[j].dst # <<>>}}

\* the label holds the query, letter case aside
Holds(label, query) == Contains(Lower(label), Lower(query))

\* next_move was called with the move the user typed
Called == pc \in {"moved", "error"}

\* C9: when the query is held by some node label and by some edge label of
\* the chart, the pivot next_move resolves is a node label that holds the
\* query: the edge labels are not what decides it.
C9_NodeBeforeEdge ==
    (/\ Called
     /\ \E l \in NodeLabels(reply) : Holds(l, move_text)
     /\ \E l \in EdgeLabels(reply) : Holds(l, move_text))
    => /\ outcome.scan = "node"
       /\ outcome.new_position \in {l \in NodeLabels(reply) : Holds(l, move_text)}

\* C10: when no node label and no edge label of the sanitized chart holds the
\* query, next_move returns the chart it was given, character for
\* character, and makes no completion request.
C10_MissReturnsGiven ==
    (/\ Called
     /\ \A l \in NodeLabels(reply) \cup EdgeLabels(reply) : ~Holds(l, move_text))
    => /\ pc = "moved"
       /\ outcome.returned = flow_chart
       /\ outcome.requests = 0

\* C11: when some node label of the chart holds the query, wherever on its
\* line the node stands, next_move finds the match in the node scan: it
\* goes on neither to the edge scan nor to the no-match result.
C11_NodeLabelMatches ==
    (Called /\ \E l \in NodeLabels(reply) : Holds(l, move_text))
    => outcome.scan = "node"

\* the node references of a reply, and its edges as pairs of references
Refs(r) ==
    {r.statements[k].src : k \in 1..Len(r.statements)}
    \cup {r.statements[k].dst[1] : k \in {j \in 1..Len(r.statements) : r.statements[j].dst # <<>>}}
Edges(r) ==
    {<<r.statements[k].src, r.statements[k].dst[1]>> :
        k \in {j \in 1..Len(r.statements) : r.statements[j].dst # <<>>}}

\* the display labels the chart gives to a node id
LabelsOfId(r, id) == {StripQuotes(n.label[1]) : n \in {m \in Refs(r) : m.id = id /\ m.label # <<>>}}

\* the ids one edge away from the id, in either direction
NeighbourIds(r, id) ==
    ({e[2].id : e \in {d \in Edges(r) : d[1].id = id}}
     \cup {e[1].id : e \in {d \in Edges(r) : d[2].id = id}}) \ {id}

\* the display labels of the neighbours
NeighbourLabels(r, id) == UNION {LabelsOfId(r, j) : j \in NeighbourIds(r, id)}

\* the elements of a sequence
Range(seq) == {seq[k] : k \in 1..Len(seq)}

\* C12: on a node match the pivot is the matched node's own display label,
\* and the context labels collected are exactly the display labels of the
\* other nodes joined to the matched node by one edge, outbound or inbound.
C12_PivotAndContext ==
    (pc = "moved" /\ outcome.scan = "node")
    => /\ outcome.new_position \in LabelsOfId(reply, outcome.node_id)
       /\ Range(outcome.context_nodes) = NeighbourLabels(reply, outcome.node_id)

\* the edges of a reply whose label holds the query, by statement number
HoldingEdges(r, query) ==
    {k \in 1..Len(r.statements) :
        /\ r.statements[k].edge # <<>>
        /\ r.statements[k].dst # <<>>
        /\ Holds(StripQuotes(r.statements[k].edge[1]), query)}

\* what a node reference shows: its display label, or its id when it has none
Display(n) == IF n.label # <<>> THEN StripQuotes(n.label[1]) ELSE n.id

\* C13: when no node label holds the query and an edge label does, the
\* pivot is what the target of such an edge shows: its display label, or
\* its raw id when the target is written without bracketed text.
C13_EdgeTarget ==
    (/\ Called
     /\ \A l \in NodeLabels(reply) : ~Holds(l, move_text)
     /\ HoldingEdges(reply, move_text) # {})
    => outcome.new_position
           \in {Display(reply.statements[k].dst[1]) : k \in HoldingEdges(reply, move_text)}

\* C14: next_move raises nothing while it reads the chart: a malformed
\* line is skipped and the call ends in a pivot or in the no-match result.
C14_NeverRaises == pc # "error" /\ ~outcome.raised

\* the labelled node references of a reply in document order
RECURSIVE LabelledRefs(_)
LabelledRefs(statements) ==
    IF statements = <<>> THEN <<>>
    ELSE SelectSeq(<<statements[1].src>> \o statements[1].dst, LAMBDA n : n.label # <<>>)
         \o LabelledRefs(Tail(statements))

\* the places of a sequence of references whose label holds the query
HoldingRefs(refs, query) == {k \in 1..Len(refs) : Holds(Display(refs[k]), query)}

\* C15: with several node labels holding the query, the pivot is the one
\* that comes first in the chart; with no node label and several edges
\* holding it, the pivot is the target of the first such edge.
C15_FirstInDocumentOrder ==
    LET refs == LabelledRefs(reply.statements)
        nodes == HoldingRefs(refs, move_text)
        edges == HoldingEdges(reply, move_text)
    IN  /\ (Called /\ Cardinality({Display(refs[k]) : k \in nodes}) > 1)
           => outcome.new_position = Display(refs[First(nodes)])
        /\ (Called /\ nodes = {} /\ Cardinality(edges) > 1)
           => outcome.new_position = Display(reply.statements[First(edges)].dst[1])

(***************************************************************************)
(* The requests of the chart page: Generate Flow Chart and Generate        *)
(* Counter Strategy (src/flowstate.py, src/jiu_jitsu_functions.py)         *)
(***************************************************************************)

\* line 1535: the marker in front of the counter plan
RESPONSE ==
    <<"R","E","S","P","O","N","S","E",":">>
\* the key found in the environment, when there is one
ApiKey ==
    <<"s","k","-","t","e","s","t","-","k","e","y">>

\* line 1458: the plan is taken for a chart when it holds "graph " or "flowchart "
IsMermaid(original_plan) ==
    Contains(original_plan, KwGraph) \/ Contains(original_plan, KwFlowchart)

\* lines 1462-1512: the first hundred characters of the prompt
PromptStart(original_plan) ==
    IF IsMermaid(original_plan)
    THEN Slice(<<"G","e","n","e","r","a","t","e"," ","a","n"," ","a","d","v","e","r","s","a",
                 "r","i","a","l"," ","J","i","u","-","J","i","t","s","u"," ","g","a","m","e",
                 " ","p","l","a","n"," ","t","o"," ","c","o","u","n","t","e","r"," ","t","h",
                 "e"," ","f","o","l","l","o","w","i","n","g"," ","t","e","c","h","n","i","q",
                 "u","e"," ","f","l","o","w","c","h","a","r","t",".","\n","\n","O","R","I","G",
                 "I","N","A","L"," ","F","L","O","W","C","H","A","R","T",":","\n">>
                   \o original_plan, 0, 100)
    ELSE Slice(<<"G","e","n","e","r","a","t","e"," ","a","n"," ","a","d","v","e","r","s","a",
                 "r","i","a","l"," ","J","i","u","-","J","i","t","s","u"," ","g","a","m","e",
                 " ","p","l","a","n"," ","t","o"," ","c","o","u","n","t","e","r"," ","t","h",
                 "e"," ","f","o","l","l","o","w","i","n","g"," ","s","t","r","a","t","e","g",
                 "y",":","\n","\n","O","R","I","G","I","N","A","L"," ","S","T","R","A","T","E",
                 "G","Y",":","\n">>
                   \o original_plan, 0, 100)

\* lines 1444-1517: the record of the call that is put in front of the response
AdversarialDebugInfo(original_plan, ruleset, position, measurables, response) ==
    <<"F","u","n","c","t","i","o","n"," ","c","a","l","l","e","d"," ","w","i","t","h",":","\n",
      "r","u","l","e","s","e","t",":"," ">>
        \o ruleset \o NL
        \o <<"p","o","s","i","t","i","o","n",":"," ">> \o position \o NL
        \o <<"m","e","a","s","u","r","a","b","l","e","s",":"," ">> \o measurables \o NL
        \o <<"C","r","e","a","t","i","n","g"," ","G","e","n","A","I"," ","i","n","s","t","a",
             "n","c","e"," ","w","i","t","h"," ","A","P","I"," ","k","e","y",":"," ">>
        \o Slice(ApiKey, 0, 5) \o <<".",".",".","\n">>
        \o <<"I","n","p","u","t"," ","f","o","r","m","a","t"," ","d","e","t","e","c","t","e",
             "d",":"," ">>
        \o (IF IsMermaid(original_plan)
            THEN <<"M","e","r","m","a","i","d"," ","c","h","a","r","t">>
            ELSE <<"T","e","x","t">>) \o NL
        \o <<"C","r","e","a","t","e","d"," ","p","r","o","m","p","t",":"," ">>
        \o PromptStart(original_plan) \o <<".",".",".","\n">>
        \o <<"C","a","l","l","i","n","g"," ","g","e","n","e","r","a","t","e","_","t","e","x",
             "t",".",".",".","\n">>
        \o <<"R","e","s","p","o","n","s","e"," ","r","e","c","e","i","v","e","d"," ","f","r",
             "o","m"," ","A","P","I",":"," ">>
        \o Slice(response, 0, 100) \o <<".",".",".","\n">>

\* lines 1526-1529: the first of the parts that holds "graph" or "flowchart"
CounterPart(response, code_parts) ==
    LET holding == {i \in 1..Len(code_parts) :
                       \/ Contains(code_parts[i], <<"g","r","a","p","h">>)
                       \/ Contains(code_parts[i], <<"f","l","o","w","c","h","a","r","t">>)}
    IN  IF holding = {} THEN response ELSE Strip(code_parts[First(holding)])

\* lines 1524-1532: a fenced reply to a chart is cut to its code and sanitized
CounterCode(is_mermaid, response) ==
    IF is_mermaid /\ Contains(response, Fence)
    THEN sanitize_mermaid(CounterPart(response, Split(response, Fence)))
    ELSE response

\* lines 1516-1535: the response behind the record of the call
CounterReturn(original_plan, ruleset, position, measurables, response) ==
    DEBUG_INFO \o NL
        \o AdversarialDebugInfo(original_plan, ruleset, position, measurables, response)
        \o NL \o NL \o RESPONSE \o NL
        \o CounterCode(IsMermaid(original_plan), CutTail(response))

\* lines 1421-1540: the text returned and the number of completion requests made
adversarial_game_plan(original_plan, ruleset, position, measurables, api_key, completion) ==
    IF ~api_key THEN [text |-> ErrNoKey, requests |-> 0]
    ELSE [text |-> CounterReturn(original_plan, ruleset, position, measurables,
                                 generate_text(completion)),
          requests |-> 1]

\* the longest reply, in tokens
MaxReplyTokens == 3

\* what a reply is made of: a declaration, the position asked for, the start of a
\* debug note, a fence, and two of the names on the deny list
ReplyTokens == { GraphTD \o NL, Guard, DebugTail, Fence, Position1, DefaultGraph }

\* what the completion service does with a request: a reply, or a failure
Providers ==
    { [ok |-> TRUE, content |-> Flatten(tokens)] : tokens \in SeqsUpTo(ReplyTokens, MaxReplyTokens) }
        \cup { [ok |-> FALSE, content |-> <<"t","i","m","e","o","u","t">>] }

\* what is typed as the starting position
Positions == { Guard, <<"M","o","u","n","t">> }

\* the chart page with a chart stored by an earlier request
RequestInit ==
    /\ pc = "page"
    /\ debug_info = <<>>
    /\ reply = NoReply
    /\ flow_chart = <<>>
    /\ fixed_chart = sanitize_mermaid(GraphTD \o NL \o RenderStatement(GuardPass, TRUE))
    /\ again = <<>>
    /\ frame = NoFrame
    /\ move_text = <<>>
    /\ outcome = NoOutcome
    /\ provider = NoProvider
    /\ request = NoRequest
    /\ counter_flowchart = <<>>
    /\ strategy_text = <<>>
    /\ formatted_text = <<>>
    /\ temp_dirs = 0
    /\ base64Frames = <<>>
    /\ vision_requests = <<>>
    /\ current_image \in BOOLEAN
    /\ calls = 0
    /\ left_column_history = <<>>
    /\ right_column_history = <<>>
    /\ left_waiting = FALSE
    /\ right_waiting = FALSE

\* src/flowstate.py:600-625 with a position typed: the chart is generated from the
\* position, sanitized and stored
GenerateButton ==
    /\ pc = "page"
    /\ \E position_variable \in Positions, api_key \in BOOLEAN, completion \in Providers :
          /\ flow_chart' = generate_flow_chart_with_start(Measurables, position_variable, IsMMA,
                                                          FavoriteIdeas, api_key, completion).text
          /\ request' = [kind |-> "pivot", position |-> position_variable,
                         requests |-> IF api_key THEN 1 ELSE 0, returned |-> flow_chart']
          /\ provider' = Asked(request'.requests, completion)
          /\ fixed_chart' = sanitize_mermaid(flow_chart')
          /\ calls' = AttributeRequests(position_variable, api_key) + request'.requests
    /\ pc' = "generated"
    /\ UNCHANGED <<debug_info, reply, again, frame, move_text, outcome,
                   counter_flowchart, strategy_text, formatted_text, video_page, current_image, battle>>

\* src/flowstate.py:776: the text after the first "RESPONSE:" marker
AfterResponse(counter_plan) ==
    IF Contains(counter_plan, DEBUG_INFO) /\ Contains(counter_plan, RESPONSE)
    THEN Strip(Split(counter_plan, RESPONSE)[2])
    ELSE counter_plan

\* src/flowstate.py:763-782: the counter plan to the stored chart is asked for,
\* cut to its response and stored
CounterButton ==
    /\ pc = "page"
    /\ fixed_chart # <<>>
    /\ \E counter_position \in Positions \cup {<<>>}, position_variable \in {<<>>, Guard},
          api_key \in BOOLEAN, completion \in Providers :
          /\ request' = [kind |-> "counter", position |-> counter_position,
                         requests |-> IF api_key THEN 1 ELSE 0,
                         returned |-> adversarial_game_plan(fixed_chart, <<"I","B","J","J","F">>,
                                                            counter_position, <<>>, api_key,
                                                            completion).text]
          /\ provider' = Asked(request'.requests, completion)
          /\ counter_flowchart' = AfterResponse(request'.returned)
          \* line 782: st.rerun() runs the page once more
          /\ calls' = AttributeRequests(position_variable, api_key) + request'.requests
                        + AttributeRequests(position_variable, api_key)
    /\ pc' = "countered"
    /\ UNCHANGED <<debug_info, reply, flow_chart, fixed_chart, again, frame, move_text, outcome,
                   strategy_text, formatted_text, video_page, current_image, battle>>

RequestNext == GenerateButton \/ CounterButton

RequestSpec == RequestInit /\ [][RequestNext]_vars

(***************************************************************************)
(* Claims about the requests of the chart page                             *)
(***************************************************************************)

\* the names no generated chart may carry
DenyListed == { Position1, Position2, Submission1, Submission2, DefaultGraph }

\* the result is a chart returned behind the record of the call
Successful(text) == StartsWith(text, DEBUG_INFO) /\ Contains(text, MERMAID)

\* the result is the report of a failure
Failure(text) == StartsWith(text, <<"E","r","r","o","r">>)

\* the result reports a failure of the completion service
ProviderFailure(text) == Contains(text, ErrGeneratingText)

\* a request of the kind reached the completion service and was answered
Answered(kind) == request.kind = kind /\ request.requests = 1 /\ provider.ok

\* the reply, fence markers aside, up to its first "[Debug:"
ReadPart(content) == Split(Replace(content, Fence, <<>>) \o DebugTail, DebugTail)[1]

\* C16: a pivot request whose reply holds a deny-listed name ends in a
\* generation failure and never in a chart returned as the result.
C16_PlaceholderRejected ==
    (Answered("pivot") /\ \E name \in DenyListed : Contains(provider.content, name))
    => Failure(request.returned) /\ ~Successful(request.returned)

\* C16 as amended: a pivot request whose reply holds a deny-listed name in
\* front of its first "[Debug:" (fence markers aside) ends in a generation
\* failure and never in a chart returned as the result.
C16_PlaceholderRejectedBeforeDebug ==
    (Answered("pivot") /\ \E name \in DenyListed : Contains(ReadPart(provider.content), name))
    => Failure(request.returned) /\ ~Successful(request.returned)

\* a reply with the position asked for and a deny-listed name was refused for the name
C16_Witness ==
    /\ Answered("pivot")
    /\ pc = "generated"
    /\ Contains(provider.content, request.position)
    /\ Contains(provider.content, DefaultGraph)
    /\ request.returned = ErrPlaceholder \o DefaultGraph \o <<"'">>

\* C17: a counter request for a stored chart whose reply holds a
\* deny-listed name is reported as a generation failure, not as a failure
\* of the completion service, and the reply is not stored as the counter chart.
C17_CounterPlaceholderRejected ==
    (/\ Answered("counter")
     /\ IsMermaid(fixed_chart)
     /\ \E name \in DenyListed : Contains(ReadPart(provider.content), name))
    => /\ Failure(request.returned)
       /\ ~ProviderFailure(request.returned)
       /\ \A name \in DenyListed : ~Contains(counter_flowchart, name)

(***************************************************************************)
(* format_strategy_for_display (src/jiu_jitsu_functions.py:1776-1860)       *)
(***************************************************************************)

\* the bullet character (kept as one character of its own)
Bullet == "BULLET"

\* N. as a text
Numbered(digit) == <<digit, ".">>

\* the three bullet markers
BulletMarkers == { <<Bullet>>, <<"-">>, <<"*">> }

\* line 1796: the markers that make a text a list
DetectedMarkers == BulletMarkers \cup { Numbered(d) : d \in {"1", "2", "3"} }

\* line 1818: the numbers that start a point
NumberMarkers == { Numbered(d) : d \in {"1", "2", "3", "4", "5"} }

\* line 1812: the markers that start a point
PointMarkers == BulletMarkers \cup NumberMarkers

\* line.startswith((...))
StartsWithAny(line, markers) == \E marker \in markers : StartsWith(line, marker)

\* line 1796: some line of the text starts with a marker once stripped
HasBullets(text) ==
    LET lines == Split(text, NL)
    IN  \E k \in 1..Len(lines) : StartsWithAny(Strip(lines[k]), DetectedMarkers)

\* a point that keeps its marker
MarkerKept(line) == line

\* lines 1818-1821: the text after the number and its dot, or after the one bullet character
PointText(line) ==
    IF StartsWithAny(line, NumberMarkers) THEN Strip(SplitOnce(line, <<".">>)[2])
    ELSE Strip(SliceFrom(line, 1))

\* lines 1814-1815, 1830-1831: the current point is saved when there is one
Saved(points, current_point) ==
    IF current_point # <<>> THEN Append(points, current_point) ELSE points

\* lines 1824-1827: the line is added to the current point after one space
Continued(current_point, line) ==
    IF current_point # <<>> THEN current_point \o <<" ">> \o line ELSE line

RECURSIVE CollectPoints(_, _, _)
\* lines 1807-1831: the points of a list, line by line
CollectPoints(lines, points, current_point) ==
    IF lines = <<>> THEN Saved(points, current_point)
    ELSE IF Strip(Head(lines)) = <<>>
    THEN CollectPoints(Tail(lines), points, current_point)
    ELSE IF StartsWithAny(Strip(Head(lines)), PointMarkers)
    THEN CollectPoints(Tail(lines), Saved(points, current_point), PointText(Strip(Head(lines))))
    ELSE CollectPoints(Tail(lines), points, Continued(current_point, Strip(Head(lines))))

ItemOpen ==
    <<"<","l","i",">">>
ItemClose ==
    <<"<","/","l","i",">","\n">>
ParagraphOpen ==
    <<"<","p",">">>
ParagraphClose ==
    <<"<","/","p",">">>

\* lines 1835-1838, 1853-1856: the list of the points
ListOf(points) ==
    <<"<","u","l"," ","c","l","a","s","s","=","'","s","t","r","a","t","e","g","y","-","b","u",
      "l","l","e","t","'",">","\n">>
        \o Flatten([k \in 1..Len(points) |-> ItemOpen \o points[k] \o ItemClose])
        \o <<"<","/","u","l",">">>

\* lines 1834-1840: the list, or nothing when there is no point
ListOrNothing(points) == IF points # <<>> THEN ListOf(points) ELSE <<>>

\* a text that is never cut into paragraphs
OneParagraph(text) == <<text>>

\* line 1843: the parts between two line ends in a row that are not blank
Paragraphs(text) == SelectSeq(Split(text, NL \o NL), LAMBDA p : Strip(p) # <<>>)

\* line 1846: the paragraphs, each on one line
ParagraphsOf(paragraphs) ==
    Join([k \in 1..Len(paragraphs) |->
             ParagraphOpen \o Replace(paragraphs[k], NL, <<" ">>) \o ParagraphClose], NL)

\* line 1849: the stripped lines that are not blank
StrippedLines(text) ==
    LET lines == Split(text, NL)
    IN  SelectSeq([k \in 1..Len(lines) |-> Strip(lines[k])], LAMBDA line : line # <<>>)

\* lines 1849-1860: a list of the lines, or the text as one paragraph
LinesOrParagraph(text, lines) ==
    IF Len(lines) > 1 THEN ListOf(lines) ELSE ParagraphOpen \o text \o ParagraphClose

\* lines 1843-1860: a text without markers
Unmarked(text, paragraphs) ==
    IF Len(paragraphs) > 1 THEN ParagraphsOf(paragraphs)
    ELSE LinesOrParagraph(text, StrippedLines(text))

\* lines 1796-1860: the text once its fences are gone
Formatted(text) ==
    IF HasBullets(text) THEN ListOrNothing(CollectPoints(Split(text, NL), <<>>, <<>>))
    ELSE Unmarked(text, Paragraphs(text))

\* lines 1776-1860
format_strategy_for_display(text) == Formatted(Strip(Replace(text, Fence, <<>>)))

\* the longest strategy text, in lines
MaxLines == 4

\* what a line of a strategy text may be: empty, blank, a sentence, a line under each
\* bullet marker (one with blanks around it, one with a fence for its text), and a line
\* under a number of the first three, of the next two and of the numbers after them
StrategyLines ==
    { <<>>, <<" ">>, <<"a">>,
      <<Bullet, " ", "a">>, <<" ", "-", " ", "b", " ">>, <<"*", " ">> \o Fence,
      <<"1", ".", " ", "a">>, <<"4", ".", "b">>, <<"6", ".", " ", "c">> }

\* src/jiu_jitsu_functions.py:1744-1759: the content of a cell that is not empty
StrategyTexts ==
    { Join(lines, NL) : lines \in SeqsUpTo(StrategyLines, MaxLines) } \ { <<>> }

FormatInit ==
    /\ pc = "content"
    /\ debug_info = <<>>
    /\ reply = NoReply
    /\ flow_chart = <<>>
    /\ fixed_chart = <<>>
    /\ again = <<>>
    /\ frame = NoFrame
    /\ move_text = <<>>
    /\ outcome = NoOutcome
    /\ provider = NoProvider
    /\ request = NoRequest
    /\ counter_flowchart = <<>>
    /\ strategy_text \in StrategyTexts
    /\ formatted_text = <<>>
    /\ temp_dirs = 0
    /\ base64Frames = <<>>
    /\ vision_requests = <<>>
    /\ current_image = FALSE
    /\ calls = 0
    /\ left_column_history = <<>>
    /\ right_column_history = <<>>
    /\ left_waiting = FALSE
    /\ right_waiting = FALSE

\* lines 1746, 1759: the content of the cell is formatted
Format ==
    /\ pc = "content"
    /\ formatted_text' = format_strategy_for_display(strategy_text)
    /\ pc' = "formatted"
    /\ UNCHANGED <<debug_info, reply, flow_chart, fixed_chart, again, frame, move_text, outcome,
                   provider, request, counter_flowchart, strategy_text, video_page, page_run, battle>>

FormatNext == Format

FormatSpec == FormatInit /\ [][FormatNext]_vars

(***************************************************************************)
(* Claims about format_strategy_for_display                                *)
(***************************************************************************)

\* the items of a formatted text that stand between an opening and a closing tag
ItemsBetween(html, open, close) ==
    LET parts == Split(html, open)
    IN  [k \in 1..(Len(parts) - 1) |-> Split(parts[k + 1], close)[1]]

\* the points a formatted text shows: its list items, or its paragraphs
PointsRead(html) ==
    IF Contains(html, ItemOpen) THEN ItemsBetween(html, ItemOpen, <<"<","/","l","i",">">>)
    ELSE IF Contains(html, ParagraphOpen) THEN ItemsBetween(html, ParagraphOpen, ParagraphClose)
    ELSE <<>>

\* the lines of the strategy text, and those of them that are not blank
SourceLines == Split(strategy_text, NL)
NonBlank == {k \in 1..Len(SourceLines) : Strip(SourceLines[k]) # <<>>}

\* the k-th of the lines that are not blank
NthNonBlank(k) == CHOOSE n \in NonBlank : Cardinality({j \in NonBlank : j <= n}) = k

\* a line under a bullet marker, and under a number followed by a dot
Digits == {"0", "1", "2", "3", "4", "5", "6", "7", "8", "9"}
IsBulletLine(line) == Strip(line) # <<>> /\ Strip(line)[1] \in {Bullet, "-", "*"}
IsNumberLine(line) ==
    \E n \in 1..(Len(Strip(line)) - 1) :
        /\ Strip(line)[n + 1] = "."
        /\ \A j \in 1..n : Strip(line)[j] \in Digits
IsMarkerLine(line) == IsBulletLine(line) \/ IsNumberLine(line)

\* what follows the bullet marker of a line
AfterBullet(line) == Strip(SliceFrom(Strip(line), 1))

\* every line that is not blank is a bullet marker followed by text, and there is one
AllBulleted ==
    /\ NonBlank # {}
    /\ \A k \in NonBlank : IsBulletLine(SourceLines[k]) /\ AfterBullet(SourceLines[k]) # <<>>

\* C18: a text whose non-empty lines all begin with a bullet marker
\* followed by text gives one point per line, in order, each the line's
\* text without the marker and the whitespace around it.
C18_OnePointPerBullet ==
    (pc = "formatted" /\ AllBulleted)
    => PointsRead(formatted_text)
           = [k \in 1..Cardinality(NonBlank) |-> AfterBullet(SourceLines[NthNonBlank(k)])]

\* C18 as amended: such a text gives, in order, one point per line that has
\* text left once its fence markers, its bullet marker and the whitespace
\* around it are removed, and the point is the text that is left.
C18_OnePointPerBulletFencesAside ==
    (pc = "formatted" /\ AllBulleted)
    => PointsRead(formatted_text)
           = SelectSeq([k \in 1..Cardinality(NonBlank) |->
                           AfterBullet(Replace(SourceLines[NthNonBlank(k)], Fence, <<>>))],
                       LAMBDA point : point # <<>>)

\* two bulleted lines, one with whitespace around it, became the points "a" and "b"
C18_Witness ==
    /\ pc = "formatted"
    /\ strategy_text = <<Bullet, " ", "a", "\n", " ", "-", " ", "b", " ">>
    /\ PointsRead(formatted_text) = << <<"a">>, <<"b">> >>

\* the lines that open a paragraph when the lines between paragraphs are blank lines:
\* the first line that is not blank, and every such line that follows a blank one
OpensAfterBlank ==
    {k \in NonBlank : \A j \in NonBlank : j < k => \E b \in (j + 1)..(k - 1) : b \notin NonBlank}

\* the same when only an empty line parts two paragraphs
OpensAfterEmpty ==
    {k \in NonBlank :
        \A j \in NonBlank : j < k => \E b \in (j + 1)..(k - 1) : SourceLines[b] = <<>>}

\* no line of the text is under a marker
NoMarkerLine == \A k \in NonBlank : ~IsMarkerLine(SourceLines[k])

\* one point per line that is not blank, each the line without the whitespace around it
OnePointPerLine ==
    PointsRead(formatted_text)
        = [k \in 1..Cardinality(NonBlank) |-> Strip(SourceLines[NthNonBlank(k)])]

MarkerLines == {k \in NonBlank : IsMarkerLine(SourceLines[k])}
ContinuationsOf(k) ==
    {c \in NonBlank \ MarkerLines : c > k /\ \A n \in MarkerLines : n <= k \/ n > c}

\* the lines of a set in their order, each behind one space
RECURSIVE Appended(_)
Appended(continuations) ==
    IF continuations = {} THEN <<>>
    ELSE <<" ">> \o Strip(SourceLines[First(continuations)])
             \o Appended(continuations \ {First(continuations)})

\* C20: in a text with a marker line (a bullet, or any number and a dot),
\* every marker line starts a point and every other line that follows is
\* joined to the point before it by one space. Read on the texts that hold
\* no fence and begin with a marker line.
C20_MarkerLinesStartPoints ==
    (/\ pc = "formatted"
     /\ ~Contains(strategy_text, Fence)
     /\ MarkerLines # {}
     /\ \A k \in NonBlank : k >= First(MarkerLines))
    => /\ Len(PointsRead(formatted_text)) = Cardinality(MarkerLines)
       /\ \A n \in 1..Cardinality(MarkerLines) :
             LET k == CHOOSE m \in MarkerLines : Cardinality({j \in MarkerLines : j <= m}) = n
             IN  EndsWith(PointsRead(formatted_text)[n], Appended(ContinuationsOf(k)))

(***************************************************************************)
(* Claims about what the chart page stores                                 *)
(***************************************************************************)

\* a button of the chart page made a completion request and the request failed
FailedCall ==
    /\ ~provider'.ok
    /\ \/ request' # request /\ request'.kind = "pivot" /\ request'.requests = 1
       \/ outcome' # outcome /\ outcome'.requests = 1

\* C21: when the completion call fails during Generate Flow Chart or Flow,
\* the stored chart after the action is the stored chart before it.
C21_FailedCallKeepsChart == [][FailedCall => fixed_chart' = fixed_chart]_vars

\* the Flow button was pressed with a move that no node label and no edge label holds
FlowWithoutLabel ==
    /\ pc = "sanitized"
    /\ pc' # "sanitized"
    /\ \A l \in NodeLabels(reply) \cup EdgeLabels(reply) : ~Holds(l, move_text')

\* C22: when the move of a Flow press is held by no node label and no edge
\* label of the stored chart, the press ends in the not-in-the-chart message
\* and the stored chart keeps its value.
C22_NoMatchShowsMessage ==
    [][FlowWithoutLabel => pc' = "not_found" /\ fixed_chart' = fixed_chart]_vars

-----------------------------------------------------------------------------
(* src/movieai.py, src/genai.py, src/flowstate.py: requests that carry     *)
(* images, and the frames they are made of                                 *)

MaxFrames == 6
MaxSamples == 6
MaxImages == 4
MaxTempDirs == 2

\* a video file: whether it is on disk, and how many frames it holds
Videos == [exists : BOOLEAN, frames : 0..MaxFrames]

\* image files: two that can be read, one that cannot
Images == {"a.jpg", "b.jpg", "missing.jpg"}

\* src/movieai.py:76-111: the frame count ffprobe reports, 1000 when it fails
total_frames(file_path, probe) == IF probe = "ok" THEN file_path.frames ELSE 1000

\* src/movieai.py:113-117
frame_interval(total, max_samples) ==
    IF total > max_samples
    THEN IF total \div max_samples > 1 THEN total \div max_samples ELSE 1
    ELSE 1

\* src/movieai.py:119-137: ffmpeg writes every frame whose number is a multiple
\* of the interval, max_samples of them at most; they are read back in order
frame_files(file_path, interval, max_samples) ==
    LET multiples == (file_path.frames + interval - 1) \div interval
    IN  [i \in 1..(IF multiples < max_samples THEN multiples ELSE max_samples)
            |-> (i - 1) * interval]

\* src/movieai.py:33-158: the frames returned and the temporary directories
\* left on disk.  output_dir is TRUE when the caller names a directory; probe
\* is "ok", "failed" (an error the inner handler catches) or "raised" (any
\* other exception); extraction tells whether ffmpeg ran to its end.
extract_frames(file_path, max_samples, output_dir, probe, extraction) ==
    IF ~file_path.exists
    THEN [frames |-> <<>>, left |-> IF output_dir THEN 0 ELSE 1]
    ELSE IF probe = "raised" \/ ~extraction
         THEN [frames |-> <<>>, left |-> 0]
         ELSE [frames |-> frame_files(file_path,
                              frame_interval(total_frames(file_path, probe), max_samples),
                              max_samples),
               left |-> 0]

\* a content list: the text block, then one image_url block per image
Content(images) ==
    <<[type |-> "text"]>> \o [i \in 1..Len(images) |-> [type |-> "image_url", url |-> images[i]]]

\* src/genai.py:130-197: the requests generate_image_description sends
generate_image_description(image_paths) ==
    IF \E i \in 1..Len(image_paths) : image_paths[i] = "missing.jpg"
    THEN <<>>
    ELSE <<Content(image_paths)>>

\* src/movieai.py:184-214: the requests generate_video_description sends
generate_video_description(frames) ==
    IF frames = <<>>
    THEN <<>>
    ELSE <<Content(SubSeq(frames, 1, IF Len(frames) < 5 THEN Len(frames) ELSE 5))>>

\* src/flowstate.py:1005-1100: the requests Analyze Video sends, the one of
\* get_attributes first
AnalyzeRequests(frames) ==
    IF frames = <<>>
    THEN <<>>
    ELSE generate_image_description(<<"a.jpg">>)
            \o <<Content(SubSeq(frames, 1, IF Len(frames) < 3 THEN Len(frames) ELSE 3))>>

VideoInit ==
    /\ pc = "idle"
    /\ debug_info = <<>>
    /\ reply = NoReply
    /\ flow_chart = <<>>
    /\ fixed_chart = <<>>
    /\ again = <<>>
    /\ frame = NoFrame
    /\ move_text = <<>>
    /\ outcome = NoOutcome
    /\ provider = NoProvider
    /\ request = NoRequest
    /\ counter_flowchart = <<>>
    /\ strategy_text = <<>>
    /\ formatted_text = <<>>
    /\ temp_dirs = 0
    /\ base64Frames = <<>>
    /\ vision_requests = <<>>
    /\ current_image = FALSE
    /\ calls = 0
    /\ left_column_history = <<>>
    /\ right_column_history = <<>>
    /\ left_waiting = FALSE
    /\ right_waiting = FALSE

\* the frames are kept and the directories left behind stay on disk
Extracted(extracted) ==
    /\ temp_dirs + extracted.left <= MaxTempDirs
    /\ temp_dirs' = temp_dirs + extracted.left
    /\ base64Frames' = extracted.frames

\* src/movieai.py:33-158: a call of MovieAI.extract_frames
ExtractFrames ==
    /\ pc = "idle"
    /\ \E file_path \in Videos, max_samples \in 1..MaxSamples, output_dir \in BOOLEAN,
          probe \in {"ok", "failed", "raised"}, extraction \in BOOLEAN :
            Extracted(extract_frames(file_path, max_samples, output_dir, probe, extraction))
    /\ vision_requests' = <<>>
    /\ UNCHANGED <<pc, debug_info, reply, flow_chart, fixed_chart, again, frame, move_text,
                   outcome, provider, request, counter_flowchart, strategy_text,
                   formatted_text, page_run, battle>>

\* src/movieai.py:160-228: a call of MovieAI.generate_video_description
GenerateVideoDescription ==
    /\ pc = "idle"
    /\ \E fname_video \in Videos, max_samples \in 1..MaxSamples,
          probe \in {"ok", "failed", "raised"}, extraction \in BOOLEAN :
            Extracted(extract_frames(fname_video, max_samples, FALSE, probe, extraction))
    /\ vision_requests' = generate_video_description(base64Frames')
    /\ UNCHANGED <<pc, debug_info, reply, flow_chart, fixed_chart, again, frame, move_text,
                   outcome, provider, request, counter_flowchart, strategy_text,
                   formatted_text, page_run, battle>>

\* src/genai.py:130-197: a call of GenAI.generate_image_description
GenerateImageDescription ==
    /\ pc = "idle"
    /\ \E image_paths \in SeqsUpTo(Images, MaxImages) :
            vision_requests' = generate_image_description(image_paths)
    /\ UNCHANGED <<pc, debug_info, reply, flow_chart, fixed_chart, again, frame, move_text,
                   outcome, provider, request, counter_flowchart, strategy_text,
                   formatted_text, temp_dirs, base64Frames, page_run, battle>>

\* src/flowstate.py:978-1135: Analyze Video is pressed with an API key set
AnalyzeVideo ==
    /\ pc = "idle"
    /\ \E analysis_video \in Videos, probe \in {"ok", "failed", "raised"},
          extraction \in BOOLEAN :
            Extracted(extract_frames(analysis_video, 1, FALSE, probe, extraction))
    /\ vision_requests' = AnalyzeRequests(base64Frames')
    /\ UNCHANGED <<pc, debug_info, reply, flow_chart, fixed_chart, again, frame, move_text,
                   outcome, provider, request, counter_flowchart, strategy_text,
                   formatted_text, page_run, battle>>

VideoNext == ExtractFrames \/ GenerateVideoDescription \/ GenerateImageDescription \/ AnalyzeVideo

VideoSpec == VideoInit /\ [][VideoNext]_vars

\* how many images a content list carries
ImagesIn(blocks) == Cardinality({i \in 1..Len(blocks) : blocks[i].type = "image_url"})

\* C23: every request with images carries at most 3 of them, however many
\* images or frames were supplied.
C23_AtMostThreeImages ==
    \A i \in 1..Len(vision_requests) : ImagesIn(vision_requests[i]) <= 3

\* C28: whenever MovieAI.extract_frames made its own temporary directory, the
\* directory is gone when the call returns, whichever way it returns: no
\* directory made by tempfile.mkdtemp is ever left on disk.
C28_TempDirRemoved == temp_dirs = 0

\* the reply names no diagram kind, in any case of letters
NoDeclaration(text) ==
    /\ ~Contains(Lower(text), <<"g","r","a","p","h">>)
    /\ ~Contains(Lower(text), <<"f","l","o","w","c","h","a","r","t">>)

\* C24: when the reply to a chart request holds no graph declaration, the
\* chart stored after sanitizing is exactly the sanitizer's default diagram:
\* no error text is stored as the chart.
C24_NoDeclarationFallsBack ==
    (Answered("pivot") /\ NoDeclaration(provider.content)) => fixed_chart = FallbackText

\* C25: from the press of Generate Flow Chart, Flow or Generate Counter
\* Strategy until the page is idle again, at most two completion calls are
\* made.
C25_AtMostTwoCalls == calls <= 2

\* the line begins with exactly n spaces
IndentedBy(line, n) ==
    /\ Len(line) >= n
    /\ \A i \in 1..n : line[i] = " "
    /\ Len(line) > n => line[n + 1] # " "

\* C26: in what sanitize_mermaid returns, the declaration line has no
\* indentation and every line after it is indented by exactly four spaces.
C26_FourSpaceIndentation ==
    pc = "sanitized"
    => /\ IndentedBy(LinesOf(fixed_chart)[1], 0)
       /\ \A i \in 2..Len(LinesOf(fixed_chart)) : IndentedBy(LinesOf(fixed_chart)[i], 4)

\* a bracket or pipe delimiter with a space next to it on the side of the
\* label, the label's quote counted as part of the delimiter
PaddedDelimiters ==
    { <<"[", " ">>, <<" ", "]">>, ArrowPipe \o <<" ">>, <<" ", "|">>,
      <<"[", "\"", " ">>, <<" ", "\"", "]">>, ArrowPipe \o <<"\"", " ">>, <<" ", "\"", "|">> }

\* C27: what sanitize_mermaid returns has no space next to a bracket or a
\* pipe on the side of the label: a label written [ X] comes out as ["X"],
\* an edge label written -->| x | as -->|"x"|.
C27_NoSpaceAtDelimiters ==
    pc = "sanitized" => \A padded \in PaddedDelimiters : ~Contains(fixed_chart, padded)

-----------------------------------------------------------------------------
(* src/flowstate.py:1148-1510: the strategy battle of the Anime OODA page. *)
(* A press is handled to its end, reruns included, before the next one.    *)

\* the most entries of one column
MaxHistory == 3

\* what the completion service writes as a strategy
Strategies == { <<"a">>, <<"b">> }

\* lines 1209-1215, 1428-1434, 1486-1492: an entry of a column
Entry(role, text) == [role |-> role, content |-> text]

BattleInit ==
    /\ pc = "idle"
    /\ debug_info = <<>>
    /\ reply = NoReply
    /\ flow_chart = <<>>
    /\ fixed_chart = <<>>
    /\ again = <<>>
    /\ frame = NoFrame
    /\ move_text = <<>>
    /\ outcome = NoOutcome
    /\ provider = NoProvider
    /\ request = NoRequest
    /\ counter_flowchart = <<>>
    /\ strategy_text = <<>>
    /\ formatted_text = <<>>
    /\ temp_dirs = 0
    /\ base64Frames = <<>>
    /\ vision_requests = <<>>
    /\ current_image = FALSE
    /\ calls = 0
    /\ left_column_history = <<>>
    /\ right_column_history = <<>>
    /\ left_waiting = FALSE
    /\ right_waiting = FALSE

\* lines 1176-1229: Generate Initial Strategy.  With a field left empty or no
\* key set nothing is stored; otherwise the strategy is appended to the left
\* column, both flags are cleared and the page is run again.
GenerateInitialStrategy ==
    /\ pc = "idle"
    /\ Len(left_column_history) < MaxHistory
    /\ \E filled \in BOOLEAN, api_key \in BOOLEAN, initial_strategy \in Strategies :
          IF filled /\ api_key
          THEN /\ left_column_history' = Append(left_column_history,
                                                Entry("initiator", initial_strategy))
               /\ left_waiting' = FALSE
               /\ right_waiting' = FALSE
               /\ pc' = "rerun"
               /\ UNCHANGED right_column_history
          ELSE UNCHANGED <<pc, battle>>
    /\ UNCHANGED <<debug_info, reply, flow_chart, fixed_chart, again, frame, move_text, outcome,
                   provider, request, counter_flowchart, strategy_text, formatted_text,
                   video_page, page_run>>

\* the button that is disabled only while its counter is on its way
LeftButtonWithoutHistoryTest == left_waiting

\* line 1376: there is nothing to counter, or the counter is on its way
LeftButtonDisabled == Len(right_column_history) = 0 \/ left_waiting

\* lines 1232, 1376-1380: the button of the left column
LeftCounter ==
    /\ pc = "idle"
    /\ Len(left_column_history) > 0
    /\ Len(left_column_history) < MaxHistory
    /\ ~LeftButtonDisabled
    /\ left_waiting' = TRUE
    /\ pc' = "rerun"
    /\ UNCHANGED <<debug_info, reply, flow_chart, fixed_chart, again, frame, move_text, outcome,
                   provider, request, counter_flowchart, strategy_text, formatted_text,
                   video_page, page_run, left_column_history, right_column_history,
                   right_waiting>>

\* lines 1232, 1385-1389: the button of the right column
RightCounter ==
    /\ pc = "idle"
    /\ Len(left_column_history) > 0
    /\ Len(right_column_history) < MaxHistory
    /\ ~right_waiting
    /\ right_waiting' = TRUE
    /\ pc' = "rerun"
    /\ UNCHANGED <<debug_info, reply, flow_chart, fixed_chart, again, frame, move_text, outcome,
                   provider, request, counter_flowchart, strategy_text, formatted_text,
                   video_page, page_run, left_column_history, right_column_history,
                   left_waiting>>

\* lines 1392-1446: the counter of the left column.  The look-up of the last
\* entry of the right column raises when that column is empty.
LeftWaiting(formatted_counter, raised) ==
    /\ left_waiting' = FALSE
    /\ left_column_history' =
            IF raised \/ right_column_history = <<>>
            THEN left_column_history
            ELSE Append(left_column_history, Entry("initiator", formatted_counter))
    /\ UNCHANGED <<right_column_history, right_waiting>>

\* lines 1448-1502: the counter of the right column
RightWaiting(formatted_counter, raised) ==
    /\ right_waiting' = FALSE
    /\ right_column_history' =
            IF raised \/ left_column_history = <<>>
            THEN right_column_history
            ELSE Append(right_column_history, Entry("defender", formatted_counter))
    /\ UNCHANGED <<left_column_history, left_waiting>>

\* a run of the page that st.rerun() asked for: the flag that is set is served
\* (and the page run once more), or the page comes to rest
Rerun ==
    /\ pc = "rerun"
    /\ \E formatted_counter \in Strategies, raised \in BOOLEAN :
          IF left_waiting
          THEN LeftWaiting(formatted_counter, raised) /\ UNCHANGED pc
          ELSE IF right_waiting
               THEN RightWaiting(formatted_counter, raised) /\ UNCHANGED pc
               ELSE pc' = "idle" /\ UNCHANGED battle
    /\ UNCHANGED <<debug_info, reply, flow_chart, fixed_chart, again, frame, move_text, outcome,
                   provider, request, counter_flowchart, strategy_text, formatted_text,
                   video_page, page_run>>

\* lines 1505-1510: Reset Battle
ResetBattle ==
    /\ pc = "idle"
    /\ Len(left_column_history) > 0
    /\ left_column_history' = <<>>
    /\ right_column_history' = <<>>
    /\ left_waiting' = FALSE
    /\ right_waiting' = FALSE
    /\ pc' = "rerun"
    /\ UNCHANGED <<debug_info, reply, flow_chart, fixed_chart, again, frame, move_text, outcome,
                   provider, request, counter_flowchart, strategy_text, formatted_text,
                   video_page, page_run>>

BattleNext == GenerateInitialStrategy \/ LeftCounter \/ RightCounter \/ Rerun \/ ResetBattle

BattleSpec == BattleInit /\ [][BattleNext]_vars

C30_NoPlaceholderStored == \A name \in DenyListed : ~Contains(fixed_chart, name)

=============================================================================
